---------------------------- MODULE Spec2Model ----------------------------
(***************************************************************************)
(* Model of the query-vetting pipeline of ai-native-foundry:               *)
(*   - the static validators (validateSyntax, validateAgainstSchema) and   *)
(*     the merge of their verdicts in the generate route;                  *)
(*   - the query-engine calls (validateSQL / validateWithSnowflake,        *)
(*     previewQuery, getQueryCount) and the life cycle of the connections  *)
(*     they open.                                                          *)
(* SQL text is a TLA+ string; the validators are computed character by     *)
(* character the way the JavaScript string and RegExp operations do.       *)
(***************************************************************************)
EXTENDS FiniteSets, Integers, Sequences, TLC

VARIABLES
    handler,    \* the entry point being served ("idle" when none is)
    stage,      \* generate route: where the handler stands
    sql,        \* the SQL text handed to the static validators
    schemaId,   \* the schema id handed to validateAgainstSchema / the route
    syntaxV,    \* verdict of validateSyntax (NoVerdict when it did not run)
    schemaV,    \* verdict of validateAgainstSchema (NoVerdict when it did not run)
    response,   \* what the entry point returned (NoResponse while none)
    reply,      \* generate route: the text the generation service answered with
    prompts,    \* generate route: the prompts sent to the generation service
    envOk,      \* per engine call: process.env holds every SNOWFLAKE_* variable
    kind,       \* per engine call: the exported function that was called
    pc,         \* per engine call: the I/O completion the call is waiting for
    ref,        \* per engine call and connection object: its field `connection`
    link,       \* per engine call and connection object: state of the SDK connection
    sent,       \* per engine call: the statements submitted to the engine, with the answers
    outcome,    \* per engine call: what the call returns or throws
    args        \* per engine call: the arguments of the call

textVars == <<handler, stage, sql, schemaId, syntaxV, schemaV, response, reply, prompts>>
engineVars == <<envOk, kind, pc, ref, link, sent, outcome, args>>
vars == <<handler, stage, sql, schemaId, syntaxV, schemaV, response, reply, prompts,
          envOk, kind, pc, ref, link, sent, outcome, args>>

(***************************************************************************)
(* Bounds of the model.                                                    *)
(***************************************************************************)
\* number of fragments an input SQL text is assembled from
MaxFrags == 2
\* number of engine calls that may be in flight
MaxCalls == 2

(***************************************************************************)
(* Strings: JavaScript string primitives, computed per character.          *)
(***************************************************************************)
CharAt(s, i) == SubSeq(s, i, i)

LowerAlpha == "abcdefghijklmnopqrstuvwxyz"
UpperAlpha == "ABCDEFGHIJKLMNOPQRSTUVWXYZ"

LowerChars == {CharAt(LowerAlpha, i) : i \in 1..26}
UpperChars == {CharAt(UpperAlpha, i) : i \in 1..26}
UpperOf == [c \in LowerChars |->
               CharAt(UpperAlpha, CHOOSE i \in 1..26 : CharAt(LowerAlpha, i) = c)]

IsLower(c) == c \in LowerChars
IsUpper(c) == c \in UpperChars

\* String.prototype.toUpperCase on one character
UpperChar(c) == IF IsLower(c) THEN UpperOf[c] ELSE c

RECURSIVE toUpperCase(_)
toUpperCase(s) ==
    IF s = "" THEN ""
    ELSE UpperChar(CharAt(s, 1)) \o toUpperCase(SubSeq(s, 2, Len(s)))

\* String.prototype.includes (needle non-empty)
Includes(s, needle) ==
    \E i \in 1..(Len(s) - Len(needle) + 1) :
        SubSeq(s, i, i + Len(needle) - 1) = needle

\* String.prototype.startsWith
StartsWith(s, prefix) ==
    Len(s) >= Len(prefix) /\ SubSeq(s, 1, Len(prefix)) = prefix

\* white space as String.prototype.trim and the RegExp class \s see it
IsSpace(c) == c \in {" ", "\n", "\t"}

\* String.prototype.trim
trim(s) ==
    LET keep == {i \in 1..Len(s) : ~IsSpace(CharAt(s, i))}
    IN IF keep = {} THEN ""
       ELSE SubSeq(s, CHOOSE i \in keep : \A j \in keep : i <= j,
                      CHOOSE i \in keep : \A j \in keep : i >= j)

\* (s.match(/c/g) || []).length for a one-character pattern
CountChar(s, c) == Cardinality({i \in 1..Len(s) : CharAt(s, i) = c})

\* the RegExp class [A-Z_] under the i flag
IsNameChar(c) == IsUpper(c) \/ IsLower(c) \/ c = "_"

\* last index of the greedy run \s* that starts at i (i - 1 when it is empty)
RECURSIVE SpaceRunEnd(_, _)
SpaceRunEnd(s, i) ==
    IF i <= Len(s) /\ IsSpace(CharAt(s, i)) THEN SpaceRunEnd(s, i + 1) ELSE i - 1

\* last index of the greedy run [A-Z_]* that starts at i (i - 1 when it is empty)
RECURSIVE NameRunEnd(_, _)
NameRunEnd(s, i) ==
    IF i <= Len(s) /\ IsNameChar(CharAt(s, i)) THEN NameRunEnd(s, i + 1) ELSE i - 1

(***************************************************************************)
(* Numbers.  A JavaScript number is kept as an integer, or as NaN.         *)
(***************************************************************************)
Digits == "0123456789"
DigitChars == {CharAt(Digits, i) : i \in 1..10}
DigitOf == [c \in DigitChars |-> (CHOOSE i \in 1..10 : CharAt(Digits, i) = c) - 1]

\* the RegExp class \d
IsDigit(c) == c \in DigitChars

\* last index of the greedy run \d* that starts at i (i - 1 when it is empty)
RECURSIVE DigitRunEnd(_, _)
DigitRunEnd(s, i) ==
    IF i <= Len(s) /\ IsDigit(CharAt(s, i)) THEN DigitRunEnd(s, i + 1) ELSE i - 1

\* the number a run of decimal digits denotes
RECURSIVE DigitsValue(_)
DigitsValue(d) ==
    IF d = "" THEN 0
    ELSE 10 * DigitsValue(SubSeq(d, 1, Len(d) - 1)) + DigitOf[CharAt(d, Len(d))]

NaN == [nan |-> TRUE, value |-> 0]
Num(n) == [nan |-> FALSE, value |-> n]

\* parseInt(s, 10): leading white space, an optional sign, then the longest run of
\* digits; NaN when there is no digit there
parseInt(s) ==
    LET start == SpaceRunEnd(s, 1) + 1
        signed == start <= Len(s) /\ CharAt(s, start) \in {"+", "-"}
        first == IF signed THEN start + 1 ELSE start
        last == DigitRunEnd(s, first)
    IN IF last < first THEN NaN
       ELSE IF signed /\ CharAt(s, start) = "-"
            THEN Num(0 - DigitsValue(SubSeq(s, first, last)))
            ELSE Num(DigitsValue(SubSeq(s, first, last)))

RECURSIVE NatToString(_)
NatToString(n) ==
    IF n < 10 THEN CharAt(Digits, n + 1)
    ELSE NatToString(n \div 10) \o CharAt(Digits, (n % 10) + 1)

\* String(x) / `${x}` of a number
NumberToString(x) ==
    IF x.nan THEN "NaN"
    ELSE IF x.value < 0 THEN "-" \o NatToString(0 - x.value)
    ELSE NatToString(x.value)

(***************************************************************************)
(* Verdicts.  A message is kept as its template with the values that are   *)
(* interpolated in it.                                                     *)
(***************************************************************************)
Message(text, arg, list) == [text |-> text, arg |-> arg, list |-> list]

\* return { isValid: errors.length === 0, errors, warnings }
Verdict_AlwaysValid(errors, warnings) ==
    [isValid |-> TRUE, errors |-> errors, warnings |-> warnings]
Verdict(errors, warnings) ==
    [isValid |-> Len(errors) = 0, errors |-> errors, warnings |-> warnings]

\* an exception that leaves a function, with its message
Thrown(message) == [thrown |-> message]
IsThrown(r) == "thrown" \in DOMAIN r
IsVerdict(r) == {"isValid", "errors", "warnings"} \subseteq DOMAIN r

NoVerdict == [none |-> TRUE]
NoResponse == [none |-> TRUE]

(***************************************************************************)
(* JSON text of a value (JSON.stringify).  A value is a string, a number   *)
(* or a BigInt; an object is a sequence of key/value fields.               *)
(***************************************************************************)
Str(t) == [type |-> "string", text |-> t, value |-> 0]
Number(n) == [type |-> "number", text |-> "", value |-> n]
BigInt(n) == [type |-> "bigint", text |-> "", value |-> n]

Field(key, val) == [key |-> key, val |-> val]

\* a character inside a JSON string literal
EscapeChar(c) ==
    IF c = "\"" THEN "\\\""
    ELSE IF c = "\\" THEN "\\\\"
    ELSE IF c = "\n" THEN "\\n"
    ELSE IF c = "\t" THEN "\\t"
    ELSE c

RECURSIVE Escape(_)
Escape(t) == IF t = "" THEN "" ELSE EscapeChar(CharAt(t, 1)) \o Escape(SubSeq(t, 2, Len(t)))

Quote(t) == "\"" \o Escape(t) \o "\""

\* JSON.stringify of a value; a BigInt makes it throw a TypeError
StringifyThrows(val) == val.type = "bigint"
StringifyValue(val) ==
    IF val.type = "string" THEN Quote(val.text) ELSE NumberToString(Num(val.value))

RECURSIVE StringifyFields(_)
StringifyFields(fields) ==
    IF fields = <<>> THEN ""
    ELSE Quote(fields[1].key) \o ":" \o StringifyValue(fields[1].val)
         \o (IF Len(fields) > 1 THEN "," ELSE "") \o StringifyFields(Tail(fields))

\* JSON.stringify of an object
Stringify(fields) == "{" \o StringifyFields(fields) \o "}"

(***************************************************************************)
(* JSON.parse, for texts made of objects, strings and whole numbers.       *)
(***************************************************************************)
Object(fields) == [type |-> "object", text |-> "", value |-> 1, fields |-> fields]

Undefined == [type |-> "undefined", text |-> "", value |-> 0]
Null == [type |-> "null", text |-> "", value |-> 0]
True == [type |-> "boolean", text |-> "", value |-> 1]

\* JavaScript truthiness of a value
Truthy(val) == IF val.type = "string" THEN val.text # "" ELSE val.value # 0

\* a parse step: whether it succeeded, the index after what it read, the value read
Parsed(next, val) == [ok |-> TRUE, next |-> next, val |-> val]
ParseFails == [ok |-> FALSE, next |-> 0, val |-> Null]

\* the index of the first character from j on that ends a run of plain characters
\* of a string literal: a quote, a backslash or a control character
PlainRunEnd(s, j) ==
    LET special == {i \in j..Len(s) : CharAt(s, i) \in {"\"", "\\", "\n", "\t"}}
    IN IF special = {} THEN Len(s) + 1
       ELSE CHOOSE i \in special : \A k \in special : i <= k

\* the character an escape sequence stands for, "" when there is no such escape
Unescape(c) ==
    IF c = "\"" THEN "\"" ELSE IF c = "\\" THEN "\\"
    ELSE IF c = "n" THEN "\n" ELSE IF c = "t" THEN "\t" ELSE ""

\* the characters of a string literal from index j on, after the text read so far
RECURSIVE ParseChars(_, _, _)
ParseChars(s, j, read) ==
    LET e == PlainRunEnd(s, j)
        text == read \o SubSeq(s, j, e - 1)
    IN IF e > Len(s) THEN ParseFails
       ELSE IF CharAt(s, e) = "\"" THEN Parsed(e + 1, Str(text))
       ELSE IF CharAt(s, e) = "\\" /\ e + 1 <= Len(s) /\ Unescape(CharAt(s, e + 1)) # ""
       THEN ParseChars(s, e + 2, text \o Unescape(CharAt(s, e + 1)))
       ELSE ParseFails

\* a string literal whose opening quote is at index i
ParseString(s, i) ==
    IF i <= Len(s) /\ CharAt(s, i) = "\"" THEN ParseChars(s, i + 1, "") ELSE ParseFails

SkipSpace(s, i) == SpaceRunEnd(s, i) + 1

RECURSIVE ParseValue(_, _)
RECURSIVE ParseMembers(_, _, _)
RECURSIVE ParseMemberValue(_, _, _)
RECURSIVE ParseMemberEnd(_, _, _, _)

\* a value that starts at index j, white space already skipped
ParseValue(s, j) ==
    IF j > Len(s) THEN ParseFails
    ELSE IF CharAt(s, j) = "\"" THEN ParseString(s, j)
    ELSE IF IsDigit(CharAt(s, j))
    THEN Parsed(DigitRunEnd(s, j) + 1, Number(DigitsValue(SubSeq(s, j, DigitRunEnd(s, j)))))
    ELSE IF CharAt(s, j) = "{"
    THEN IF SkipSpace(s, j + 1) <= Len(s) /\ CharAt(s, SkipSpace(s, j + 1)) = "}"
         THEN Parsed(SkipSpace(s, j + 1) + 1, Object(<<>>))
         ELSE ParseMembers(s, SkipSpace(s, j + 1), <<>>)
    ELSE ParseFails

\* the members of an object from index i on, after the members read so far: the
\* key, then the colon and the value, then a comma or the closing brace
ParseMembers(s, i, read) == ParseMemberValue(s, ParseString(s, i), read)

ParseMemberValue(s, key, read) ==
    IF /\ key.ok /\ SkipSpace(s, key.next) <= Len(s)
       /\ CharAt(s, SkipSpace(s, key.next)) = ":"
    THEN ParseMemberEnd(s, key, ParseValue(s, SkipSpace(s, SkipSpace(s, key.next) + 1)), read)
    ELSE ParseFails

ParseMemberEnd(s, key, val, read) ==
    LET after == SkipSpace(s, val.next)
        members == Append(read, Field(key.val.text, val.val))
    IN IF ~val.ok \/ after > Len(s) THEN ParseFails
       ELSE IF CharAt(s, after) = "," THEN ParseMembers(s, SkipSpace(s, after + 1), members)
       ELSE IF CharAt(s, after) = "}" THEN Parsed(after + 1, Object(members))
       ELSE ParseFails

\* JSON.parse(text): the value, or a SyntaxError
JSONparse(text) ==
    LET r == ParseValue(text, SkipSpace(text, 1))
    IN IF r.ok /\ SkipSpace(text, r.next) > Len(text) THEN r.val
       ELSE Thrown("SyntaxError: Unexpected token in JSON")

(***************************************************************************)
(* validateSyntax                                                          *)
(***************************************************************************)
dangerousKeywords ==
    <<"DROP", "DELETE", "UPDATE", "INSERT", "TRUNCATE", "ALTER", "CREATE", "EXEC">>

EmptyMsg == Message("SQL query cannot be empty", "", <<>>)
SelectMsg == Message("Query must start with SELECT", "", <<>>)
FromMsg == Message("Query must include FROM clause", "", <<>>)
DangerousMsg(keyword) ==
    Message("Dangerous keyword detected: ${keyword}. Only SELECT queries are allowed.",
            keyword, <<>>)
ParenMsg == Message("Unbalanced parentheses in query", "", <<>>)
DistinctMsg == Message("Consider using DISTINCT to avoid duplicate records", "", <<>>)

\* const upperSQL = sql.toUpperCase()
UpperSQL_NoFold(s) == s
UpperSQL(s) == toUpperCase(s)

\* if (!upperSQL.trim().startsWith('SELECT')) errors.push(...)
SelectErrors(upperSQL) ==
    IF ~StartsWith(trim(upperSQL), "SELECT") THEN <<SelectMsg>> ELSE <<>>

\* if (!upperSQL.includes('FROM')) errors.push(...)
FromErrors(upperSQL) ==
    IF ~Includes(upperSQL, "FROM") THEN <<FromMsg>> ELSE <<>>

\* for (const keyword of dangerousKeywords) if (upperSQL.includes(keyword)) errors.push(...)
RECURSIVE DangerousErrorsFrom(_, _)
DangerousErrorsFrom(upperSQL, k) ==
    IF k > Len(dangerousKeywords) THEN <<>>
    ELSE (IF Includes(upperSQL, dangerousKeywords[k])
          THEN <<DangerousMsg(dangerousKeywords[k])>> ELSE <<>>)
         \o DangerousErrorsFrom(upperSQL, k + 1)

DangerousErrors_FirstOnly(upperSQL) ==
    LET hit == {k \in 1..Len(dangerousKeywords) : Includes(upperSQL, dangerousKeywords[k])}
    IN IF hit = {} THEN <<>>
       ELSE <<DangerousMsg(dangerousKeywords[CHOOSE k \in hit : \A j \in hit : k <= j])>>
DangerousErrors(upperSQL) == DangerousErrorsFrom(upperSQL, 1)

\* openParens !== closeParens
ParenErrors_OpenOnly(s) ==
    IF CountChar(s, "(") > CountChar(s, ")") THEN <<ParenMsg>> ELSE <<>>
ParenErrors(s) ==
    IF CountChar(s, "(") # CountChar(s, ")") THEN <<ParenMsg>> ELSE <<>>

\* if (!upperSQL.includes('DISTINCT')) warnings.push(...)
DistinctWarnings(upperSQL) ==
    IF ~Includes(upperSQL, "DISTINCT") THEN <<DistinctMsg>> ELSE <<>>

validateSyntax(s) ==
    IF s = "" \/ Len(trim(s)) = 0
    THEN [isValid |-> FALSE, errors |-> <<EmptyMsg>>, warnings |-> <<>>]
    ELSE LET upperSQL == UpperSQL(s)
         IN Verdict(SelectErrors(upperSQL) \o FromErrors(upperSQL)
                        \o DangerousErrors(upperSQL) \o ParenErrors(s),
                    DistinctWarnings(upperSQL))

(***************************************************************************)
(* Schema registry.  The schema documents follow the documented structure  *)
(* tables -> fields, with upper-case table and field names.                *)
(***************************************************************************)
Table(name, fields) == [name |-> name, fields |-> fields]

SchemaFiles ==
    [id \in {"sig-v2", "demo-graph-v1"} |->
        IF id = "sig-v2"
        THEN [version |-> "2", tables |-> <<Table("DATA", <<"HOUSEHOLD_ID", "AGE">>),
                                            Table("EMAIL", <<"HOUSEHOLD_ID">>)>>]
        ELSE [version |-> "1", tables |-> <<Table("PERSON", <<"ID", "AGE">>)>>]]

\* the schema ids a caller may name: the two documents and one that has no file
SchemaIds == {"sig-v2", "demo-graph-v1", "no-such-schema"}

SchemaNotFoundMsg(id) == Message("Schema not found: ${schemaId}", id, <<>>)

\* readFileSync + JSON.parse, any failure rethrown as 'Schema not found'
loadSchema(id) ==
    IF id \in DOMAIN SchemaFiles
    THEN [ok |-> TRUE, schema |-> SchemaFiles[id]]
    ELSE [ok |-> FALSE, error |-> SchemaNotFoundMsg(id)]

\* Object.keys(schema.tables)
TableNames(schema) == [i \in 1..Len(schema.tables) |-> schema.tables[i].name]

SeqRange(q) == {q[i] : i \in 1..Len(q)}

RECURSIVE MapUpper(_)
MapUpper(q) == IF q = <<>> THEN <<>> ELSE <<toUpperCase(Head(q))>> \o MapUpper(Tail(q))

(***************************************************************************)
(* validateAgainstSchema                                                   *)
(***************************************************************************)
InvalidTableMsg(tableName, validTables) ==
    Message("Invalid table: ${tableName}. Valid tables: ${validTables.join(', ')}",
            tableName, validTables)
NoTablesMsg == Message("No valid tables found in query", "", <<>>)
FieldMsg(fieldName, tableName) ==
    Message("Field ${fieldName} may not exist in table ${tableName}",
            fieldName, <<tableName>>)

\* sql.matchAll(/(?:FROM|JOIN)\s+([A-Z_]+)/gi): the captures match[1], in order
RECURSIVE TableMatches(_, _)
TableMatches(s, i) ==
    IF i + 3 > Len(s) THEN <<>>
    ELSE IF toUpperCase(SubSeq(s, i, i + 3)) \notin {"FROM", "JOIN"}
    THEN TableMatches(s, i + 1)
    ELSE LET spaceEnd == SpaceRunEnd(s, i + 4)
             nameEnd == NameRunEnd(s, spaceEnd + 1)
         IN IF spaceEnd >= i + 4 /\ nameEnd >= spaceEnd + 1
            THEN <<SubSeq(s, spaceEnd + 1, nameEnd)>> \o TableMatches(s, nameEnd + 1)
            ELSE TableMatches(s, i + 1)

\* sql.matchAll(/([A-Z_]+)\.([A-Z_]+)/gi): the pairs <<match[1], match[2]>>, in order
RECURSIVE FieldMatches(_, _)
FieldMatches(s, i) ==
    IF i > Len(s) THEN <<>>
    ELSE LET tableEnd == NameRunEnd(s, i)
             fieldEnd == NameRunEnd(s, tableEnd + 2)
         IN IF tableEnd >= i /\ tableEnd + 1 <= Len(s) /\ CharAt(s, tableEnd + 1) = "."
                /\ fieldEnd >= tableEnd + 2
            THEN <<<<SubSeq(s, i, tableEnd), SubSeq(s, tableEnd + 2, fieldEnd)>>>>
                 \o FieldMatches(s, fieldEnd + 1)
            ELSE FieldMatches(s, i + 1)

\* if (!validTables.map(t => t.toUpperCase()).includes(tableName)) errors.push(...)
RECURSIVE TableErrors(_, _)
TableErrors(matches, validTables) ==
    IF matches = <<>> THEN <<>>
    ELSE LET tableName == toUpperCase(Head(matches))
         IN (IF tableName \notin SeqRange(MapUpper(validTables))
             THEN <<InvalidTableMsg(tableName, validTables)>> ELSE <<>>)
            \o TableErrors(Tail(matches), validTables)

\* if (usedTables.size === 0) errors.push(...)
NoTableErrors_Never(matches) == <<>>
NoTableErrors(matches) == IF matches = <<>> THEN <<NoTablesMsg>> ELSE <<>>

\* const table = schema.tables[tableName]
TablesByKey(schema, key) ==
    {schema.tables[i] : i \in {j \in 1..Len(schema.tables) : schema.tables[j].name = key}}

\* the body of the field loop: a warning when the table is known and the field is not
FieldWarning_AsWritten(match, schema) ==
    LET found == TablesByKey(schema, match[1])
        fieldExists == \E t \in found : match[2] \in SeqRange(t.fields)
    IN IF found # {} /\ ~fieldExists THEN <<FieldMsg(match[2], match[1])>> ELSE <<>>
FieldWarning(match, schema) ==
    LET tableName == toUpperCase(match[1])
        fieldName == toUpperCase(match[2])
        found == TablesByKey(schema, tableName)
        fieldExists == \E t \in found : fieldName \in SeqRange(MapUpper(t.fields))
    IN IF found # {} /\ ~fieldExists THEN <<FieldMsg(fieldName, tableName)>> ELSE <<>>

\* for (const match of fieldMatches) ...
RECURSIVE FieldWarnings(_, _)
FieldWarnings(matches, schema) ==
    IF matches = <<>> THEN <<>>
    ELSE FieldWarning(Head(matches), schema) \o FieldWarnings(Tail(matches), schema)

\* the try block: loadSchema may throw, everything after it cannot
validateAgainstSchemaBody(s, id) ==
    LET loaded == loadSchema(id)
    IN IF ~loaded.ok
       THEN Thrown(loaded.error)
       ELSE LET validTables == TableNames(loaded.schema)
                matches == TableMatches(s, 1)
            IN Verdict(TableErrors(matches, validTables) \o NoTableErrors(matches),
                       FieldWarnings(FieldMatches(s, 1), loaded.schema))

\* catch (error) { return { isValid: false, errors: [error.message], warnings: [] } }
validateAgainstSchema_NoCatch(s, id) == validateAgainstSchemaBody(s, id)
validateAgainstSchema(s, id) ==
    LET r == validateAgainstSchemaBody(s, id)
    IN IF IsThrown(r)
       THEN [isValid |-> FALSE, errors |-> <<r.thrown>>, warnings |-> <<>>]
       ELSE r

(***************************************************************************)
(* Input SQL texts: every concatenation of at most MaxFrags fragments.     *)
(***************************************************************************)
Fragments ==
    {"SELECT DISTINCT DATA.AGE FROM DATA", "select d.id, Data.Bogus from data",
     "\t(SELECT d.AGE FROM USERS", "SELECT (x)",
     " join email", " JOIN\nPERSON", " from ", " WHERE EMAIL.OPTIN",
     "2", "(", ")", " ",
     " drop", "DELETE", "UpDate", "insert", "Truncate", "ALTER", "create", "exec"}

RECURSIVE TextsUpTo(_)
TextsUpTo(n) ==
    IF n = 0 THEN {""}
    ELSE LET shorter == TextsUpTo(n - 1)
         IN shorter \cup {t \o f : t \in shorter, f \in Fragments}

SqlTexts == TextsUpTo(MaxFrags)

(***************************************************************************)
(* The static validators called on their own.                              *)
(***************************************************************************)
Idle == handler = "idle" /\ \A c \in 1..MaxCalls : pc[c] = "idle"

CallValidateSyntax ==
    /\ Idle
    /\ \E s \in SqlTexts :
          /\ sql' = s
          /\ syntaxV' = validateSyntax(s)
    /\ response' = syntaxV'
    /\ handler' = "validateSyntax"
    /\ UNCHANGED <<stage, schemaId, schemaV, reply, prompts>>
    /\ UNCHANGED engineVars

CallValidateAgainstSchema ==
    /\ Idle
    /\ \E s \in SqlTexts, id \in SchemaIds :
          /\ sql' = s
          /\ schemaId' = id
          /\ schemaV' = validateAgainstSchema(s, id)
    /\ response' = schemaV'
    /\ handler' = "validateAgainstSchema"
    /\ UNCHANGED <<stage, syntaxV, reply, prompts>>
    /\ UNCHANGED engineVars

\* the caller has its result: nothing of the invocation is kept
Finish ==
    /\ \/ handler \in {"validateSyntax", "validateAgainstSchema", "parseExplainOutput",
                       "buildPrompt", "buildCompactSchemaContext"}
       \/ handler = "generate" /\ stage = "responded"
    /\ handler' = "idle"
    /\ stage' = "none"
    /\ sql' = ""
    /\ schemaId' = ""
    /\ syntaxV' = NoVerdict
    /\ schemaV' = NoVerdict
    /\ response' = NoResponse
    /\ reply' = ""
    /\ prompts' = <<>>
    /\ UNCHANGED engineVars

(***************************************************************************)
(* The prompt builder.  A schema document holds, per table, a description  *)
(* and the fields with their type, annotations and permitted values; an    *)
(* absent text is "", an absent list is <<>>.                              *)
(***************************************************************************)
FieldDoc(name, type, meaning, instructions, values) ==
    [name |-> name, type |-> type, marketing_meaning |-> meaning,
     ai_instructions |-> instructions, valid_values |-> values]
TableDoc(name, description, fields) ==
    [name |-> name, description |-> description, fields |-> fields]
Rules(filters, fields) ==
    [declared |-> TRUE, required_filters |-> filters, required_fields |-> fields]
NoRules == [declared |-> FALSE, required_filters |-> <<>>, required_fields |-> <<>>]

\* the permitted values the schema documents declare for a field
AgeBands == <<"A", "B", "C", "D", "E", "F", "G">>
ValidValuesOf(id, field) ==
    IF field # "AGE" THEN <<>>
    ELSE IF id = "sig-v2" THEN AgeBands
    ELSE <<"18-34", "35+">>

\* the documents of SchemaFiles with everything the prompt builder reads
SchemaDocs ==
    [id \in DOMAIN SchemaFiles |->
        [tables |->
            [i \in 1..Len(SchemaFiles[id].tables) |->
                TableDoc(SchemaFiles[id].tables[i].name,
                         IF id = "sig-v2" THEN "Consumer records" ELSE "",
                         [j \in 1..Len(SchemaFiles[id].tables[i].fields) |->
                             FieldDoc(SchemaFiles[id].tables[i].fields[j],
                                      IF SchemaFiles[id].tables[i].fields[j] = "AGE"
                                      THEN "TEXT" ELSE "NUMBER",
                                      IF j = 1 THEN "Household key" ELSE "",
                                      IF j = 2 THEN "Use IN with exact values" ELSE "",
                                      ValidValuesOf(id, SchemaFiles[id].tables[i].fields[j]))])],
         email_campaign_rules |->
            IF id = "sig-v2" THEN Rules(<<"EMAILOPTIN = 1">>, <<"EMAIL", "HOUSEHOLD_ID">>)
            ELSE NoRules,
         direct_mail_rules |->
            IF id = "sig-v2" THEN Rules(<<"ADDRESS_ID IS NOT NULL">>, <<"STATE">>)
            ELSE NoRules]]

\* Array.prototype.join
RECURSIVE join(_, _)
join(list, separator) ==
    IF list = <<>> THEN ""
    ELSE IF Len(list) = 1 THEN list[1]
    ELSE list[1] \o separator \o join(Tail(list), separator)

\* values.map(v => `"${v}"`)
Quoted(values) == [i \in 1..Len(values) |-> "\"" \o values[i] \o "\""]

\* prompt-builder.ts: the value list of a field, all values or the first three,
\* the count and the last two
ValidValuesShown_All(values) ==
    IF Len(values) = 0 THEN ""
    ELSE "\n    Valid values: " \o join(Quoted(values), ", ")
ValidValuesShown(values) ==
    IF Len(values) = 0 THEN ""
    ELSE IF Len(values) <= 5
    THEN "\n    Valid values: " \o join(Quoted(values), ", ")
    ELSE "\n    Valid values: " \o join(Quoted(SubSeq(values, 1, 3)), ", ")
            \o " ... (" \o NatToString(Len(values)) \o " total) ... "
            \o join(Quoted(SubSeq(values, Len(values) - 1, Len(values))), ", ")

FieldContext(field) ==
    "  - " \o field.name \o " (" \o field.type \o ")"
        \o (IF field.marketing_meaning # ""
            THEN "\n    Meaning: " \o field.marketing_meaning ELSE "")
        \o (IF field.ai_instructions # ""
            THEN "\n    Instructions: " \o field.ai_instructions ELSE "")
        \o ValidValuesShown(field.valid_values)
        \o "\n"

TableContext(table) ==
    "TABLE: " \o table.name \o "\n"
        \o (IF table.description # "" THEN "Purpose: " \o table.description \o "\n" ELSE "")
        \o "\nFields:\n"
        \o join([j \in 1..Len(table.fields) |-> FieldContext(table.fields[j])], "")
        \o "\n"

\* prompt-builder.ts: buildCompactSchemaContext(schema)
buildCompactSchemaContext(schema) ==
    "DATABASE SCHEMA:\n" \o "==================================================" \o "\n\n"
        \o join([i \in 1..Len(schema.tables) |-> TableContext(schema.tables[i])], "")

\* schema-context.ts: the value list of a field in the compact summary
SummaryValues(values) ==
    IF Len(values) = 0 THEN ""
    ELSE IF Len(values) <= 5
    THEN ": [" \o join(Quoted(values), ", ") \o "]"
    ELSE ": [" \o join(Quoted(SubSeq(values, 1, 3)), ", ")
            \o ", ... (" \o NatToString(Len(values)) \o " values) ..., "
            \o join(Quoted(SubSeq(values, Len(values) - 1, Len(values))), ", ") \o "]"

\* schema-context.ts: buildCompactSchemaContext() over the imported schema
schemaContext_buildCompactSchemaContext(schema) ==
    "Available Tables:\n"
        \o join([i \in 1..Len(schema.tables) |->
                   "\n" \o schema.tables[i].name \o ":\n"
                       \o join([j \in 1..Len(schema.tables[i].fields) |->
                                  "  - " \o schema.tables[i].fields[j].name
                                      \o " (" \o schema.tables[i].fields[j].type \o ")"
                                      \o SummaryValues(schema.tables[i].fields[j].valid_values)
                                      \o "\n"], "")], "")

\* the files of the system-prompts directory: all present, or none
PromptFiles ==
    [name \in {"base.txt", "email-marketing.txt", "direct-mail.txt", "lookalike.txt",
               "suppression.txt"} |->
        IF name = "base.txt" THEN "You are a SQL expert.\nReturn ONLY valid JSON."
        ELSE IF name = "email-marketing.txt" THEN "EMAIL RULES:\n- EMAILOPTIN = 1"
        ELSE IF name = "direct-mail.txt" THEN "MAIL RULES:\n- ADDRESS_ID IS NOT NULL"
        ELSE IF name = "lookalike.txt" THEN "LOOKALIKE RULES:\n- start from the seed"
        ELSE ""]
NoFiles == [name \in {} |-> ""]

\* loadSystemPrompt: base.txt, or the inline text when it cannot be read
loadSystemPrompt(files) ==
    IF "base.txt" \in DOMAIN files THEN files["base.txt"]
    ELSE "You are a SQL expert specializing in identity graph queries.\n\nCRITICAL RULES:\n"
            \o "1. ALWAYS use DISTINCT on HOUSEHOLD_ID for deduplication\n"
            \o "2. ALWAYS join tables on HOUSEHOLD_ID or ADDRESS_ID\n"
            \o "3. For enumerated fields with valid_values, ALWAYS use IN clause with EXACT string values\n"
            \o "4. NEVER use >= or <= on TEXT fields with letter prefixes\n"
            \o "5. Target 50,000-200,000 households for optimal campaign scale\n\n"
            \o "Return ONLY valid JSON in this format:\n{\n"
            \o "  \"sqlQuery\": \"SELECT DISTINCT...\",\n"
            \o "  \"segmentName\": \"Brief descriptive name\",\n"
            \o "  \"description\": \"Clear description of the audience\",\n"
            \o "  \"reasoning\": \"Explanation of query approach\",\n"
            \o "  \"confidence\": 0.85,\n"
            \o "  \"estimatedSize\": 125000\n}"

validUseCases == {"email-marketing", "direct-mail", "lookalike", "suppression"}

\* loadUseCasePrompt: '' for a use case outside the vocabulary, else the file, else
\* the inline text of email-marketing and direct-mail
loadUseCasePrompt(useCase, files) ==
    IF useCase = "" \/ useCase \notin validUseCases THEN ""
    ELSE IF (useCase \o ".txt") \in DOMAIN files THEN files[useCase \o ".txt"]
    ELSE IF useCase = "email-marketing"
    THEN "EMAIL MARKETING REQUIREMENTS:\n- ALWAYS include EMAILQUALITYLEVEL >= 8 and EMAILOPTIN = 1\n"
            \o "- ALWAYS include EMAIL field in SELECT\n"
            \o "- Target 50K-200K households for optimal campaigns"
    ELSE IF useCase = "direct-mail"
    THEN "DIRECT MAIL REQUIREMENTS:\n- ALWAYS include ADDRESS_ID IS NOT NULL\n"
            \o "- ALWAYS include STATE and ZIP in SELECT\n- Use INNER JOIN for PII table\n"
            \o "- Target 25K-100K households for optimal ROI"
    ELSE ""

\* Number.prototype.toLocaleString of a whole number: groups of three digits
RECURSIVE toLocaleString(_)
toLocaleString(n) ==
    IF n < 1000 THEN NatToString(n)
    ELSE toLocaleString(n \div 1000) \o ","
            \o NatToString((n % 1000) \div 100) \o NatToString((n % 100) \div 10)
            \o NatToString(n % 10)

\* the constraints of a request; minSize and maxSize 0 when absent
Constraints(given, minSize, maxSize, requireEmail, requirePhone) ==
    [given |-> given, minSize |-> minSize, maxSize |-> maxSize,
     requireEmail |-> requireEmail, requirePhone |-> requirePhone]

RulesBlock(title, rules) ==
    "\n\n" \o title \o "\n"
        \o "Required filters: " \o join(rules.required_filters, ", ") \o "\n"
        \o "Required fields: " \o join(rules.required_fields, ", ") \o "\n"

UseCaseBlock(useCase, files) ==
    IF useCase # "" /\ loadUseCasePrompt(useCase, files) # ""
    THEN "\n\nUSE CASE INSTRUCTIONS:\n" \o loadUseCasePrompt(useCase, files)
    ELSE ""

ConstraintsBlock(constraints) ==
    IF ~constraints.given THEN ""
    ELSE "\n\nCONSTRAINTS:\n"
            \o (IF constraints.minSize # 0
                THEN "- Minimum audience size: " \o toLocaleString(constraints.minSize)
                        \o " households\n" ELSE "")
            \o (IF constraints.maxSize # 0
                THEN "- Maximum audience size: " \o toLocaleString(constraints.maxSize)
                        \o " households\n" ELSE "")
            \o (IF constraints.requireEmail
                THEN "- MUST include email addresses with quality filters\n" ELSE "")
            \o (IF constraints.requirePhone
                THEN "- MUST include phone numbers with quality filters\n" ELSE "")

\* buildPrompt over a loaded schema: the blocks in the order they are appended
PromptBlocks_RequestFirst(schema, userPrompt, useCase, constraints, files) ==
    <<loadSystemPrompt(files),
      "\n\nUSER REQUEST:\n" \o userPrompt,
      "\n\n" \o buildCompactSchemaContext(schema)>>
PromptBlocks(schema, userPrompt, useCase, constraints, files) ==
    <<loadSystemPrompt(files),
      IF schema.email_campaign_rules.declared /\ useCase = "email-marketing"
      THEN RulesBlock("SCHEMA-SPECIFIC EMAIL RULES:", schema.email_campaign_rules) ELSE "",
      IF schema.direct_mail_rules.declared /\ useCase = "direct-mail"
      THEN RulesBlock("SCHEMA-SPECIFIC DIRECT MAIL RULES:", schema.direct_mail_rules) ELSE "",
      "\n\n" \o buildCompactSchemaContext(schema),
      UseCaseBlock(useCase, files),
      ConstraintsBlock(constraints),
      "\n\nUSER REQUEST:\n" \o userPrompt>>

\* buildPrompt(params): the prompt, or the error loadSchema throws
buildPrompt_NoLoad(params) ==
    [prompt |-> loadSystemPrompt(params.files) \o "\n\nUSER REQUEST:\n" \o params.userPrompt]
buildPrompt(params) ==
    IF ~loadSchema(params.schemaId).ok THEN Thrown(loadSchema(params.schemaId).error)
    ELSE [prompt |-> join(PromptBlocks(SchemaDocs[params.schemaId], params.userPrompt,
                                       params.useCase, params.constraints, params.files),
                          "")]

\* the parameters of buildPrompt
Params(userPrompt, id, useCase, constraints, files) ==
    [userPrompt |-> userPrompt, schemaId |-> id, useCase |-> useCase,
     constraints |-> constraints, files |-> files]

\* what buildPrompt may be called with
PromptParams ==
    {Params(userPrompt, id, useCase, constraints, files) :
        userPrompt \in {"moms in Ohio", "CONSTRAINTS:\nnone"},
        id \in SchemaIds,
        useCase \in {"", "email-marketing", "direct-mail", "lookalike", "suppression",
                     "retention", "EMAIL-MARKETING"},
        constraints \in {Constraints(FALSE, 0, 0, FALSE, FALSE),
                         Constraints(TRUE, 0, 0, FALSE, FALSE),
                         Constraints(TRUE, 50000, 0, FALSE, TRUE),
                         Constraints(TRUE, 1000, 1250000, TRUE, FALSE)},
        files \in {PromptFiles, NoFiles}}

\* buildPrompt called on its own
CallBuildPrompt ==
    /\ Idle
    /\ \E params \in PromptParams :
          response' = [params |-> params, built |-> buildPrompt(params)]
    /\ handler' = "buildPrompt"
    /\ UNCHANGED <<stage, sql, schemaId, syntaxV, schemaV, reply, prompts>>
    /\ UNCHANGED engineVars

\* number of permitted values a field of a schema document may declare
MaxValues == 7

\* schema documents with one table of two fields that declare n and m values
ValuesUpTo(n) == [i \in 1..n |-> "v" \o NatToString(i)]
ContextSchemas ==
    {[tables |-> <<TableDoc("T", "",
                            <<FieldDoc("F1", "TEXT", "", "", ValuesUpTo(n)),
                              FieldDoc("F2", "TEXT", meaning, "", ValuesUpTo(m))>>)>>,
      email_campaign_rules |-> NoRules, direct_mail_rules |-> NoRules] :
        n \in 0..MaxValues, m \in 0..MaxValues, meaning \in {"", "Second field"}}

\* buildCompactSchemaContext of prompt-builder.ts and of schema-context.ts called on
\* their own
CallBuildCompactSchemaContext ==
    /\ Idle
    /\ \E schema \in ContextSchemas \cup {SchemaDocs[id] : id \in DOMAIN SchemaDocs} :
          response' = [schema |-> schema,
                       context |-> buildCompactSchemaContext(schema),
                       summary |-> schemaContext_buildCompactSchemaContext(schema)]
    /\ handler' = "buildCompactSchemaContext"
    /\ UNCHANGED <<stage, sql, schemaId, syntaxV, schemaV, reply, prompts>>
    /\ UNCHANGED engineVars

(***************************************************************************)
(* POST /v1/generate.  The handler runs from the request to the await of   *)
(* the generation service, and from the service's answer to the response.  *)
(***************************************************************************)
ErrorResponse(status, error, message) ==
    [status |-> status, error |-> error, message |-> message]

\* validation = { isValid: a.isValid && b.isValid, errors: [...a, ...b], warnings: [...a, ...b] }
MergeVerdicts_ShortCircuit(a, b) ==
    IF a.isValid
    THEN [isValid |-> b.isValid, errors |-> b.errors, warnings |-> a.warnings \o b.warnings]
    ELSE [isValid |-> FALSE, errors |-> a.errors, warnings |-> a.warnings]
MergeVerdicts(a, b) ==
    [isValid |-> a.isValid /\ b.isValid,
     errors |-> a.errors \o b.errors,
     warnings |-> a.warnings \o b.warnings]

\* res.json({ ...result, validation, metadata: { schema, ... } })
\* an object literal with spreads: a key keeps the place of its first occurrence and
\* the value of its last
LastValue(fields, key) ==
    fields[CHOOSE i \in 1..Len(fields) :
              /\ fields[i].key = key
              /\ \A j \in (i + 1)..Len(fields) : fields[j].key # key].val

\* responseText.match(/\{[\s\S]*\}/): from the first { to the last } after it
jsonMatch(responseText) ==
    LET opens == {i \in 1..Len(responseText) : CharAt(responseText, i) = "{"}
        first == CHOOSE i \in opens : \A j \in opens : i <= j
        closes == {i \in 1..Len(responseText) :
                      CharAt(responseText, i) = "}" /\ opens # {} /\ i > first}
        last == CHOOSE i \in closes : \A j \in closes : i >= j
    IN IF opens = {} \/ closes = {} THEN [found |-> FALSE, text |-> ""]
       ELSE [found |-> TRUE, text |-> SubSeq(responseText, first, last)]

\* result.sqlQuery
SqlQueryOf(result) ==
    LET at == {i \in 1..Len(result.fields) : result.fields[i].key = "sqlQuery"}
    IN IF at = {} THEN Undefined
       ELSE result.fields[CHOOSE i \in at : \A j \in at : i >= j].val

\* res.json({ ...result, validation, metadata: { schema, ... } })
GenerateBody_ResultWins(result, merged, schema) ==
    [sqlQuery |-> SqlQueryOf(result),
     validation |-> LastValue(<<Field("validation", merged)>> \o result.fields, "validation"),
     metadata |-> LastValue(<<Field("metadata", [schema |-> schema])>> \o result.fields,
                            "metadata"),
     keys |-> {result.fields[i].key : i \in 1..Len(result.fields)}
                 \cup {"validation", "metadata"}]
GenerateBody(result, merged, schema) ==
    [sqlQuery |-> SqlQueryOf(result),
     validation |-> LastValue(result.fields \o <<Field("validation", merged)>>, "validation"),
     metadata |-> LastValue(result.fields \o <<Field("metadata", [schema |-> schema])>>,
                            "metadata"),
     keys |-> {result.fields[i].key : i \in 1..Len(result.fields)}
                 \cup {"validation", "metadata"}]

\* what the generated object may hold as sqlQuery: no such key, a string, or a
\* value that is neither a string nor falsy
SqlQueryValues == {Undefined, Number(42)} \cup {Str(t) : t \in SqlTexts}

\* the service answers with the JSON text of an object and nothing else
ReplyOf(value) ==
    IF value.type = "undefined" THEN Stringify(<<Field("explanation", Str("no query"))>>)
    ELSE Stringify(<<Field("sqlQuery", value)>>)

PlainReplies == {ReplyOf(value) : value \in SqlQueryValues}

\* the service wraps the JSON text in commentary or a code fence
WrappedReplies ==
    {before \o object \o after :
        before \in {"", "Here is the query:\n~~~json\n", "Sure. "},
        object \in {"{\"sqlQuery\":\"SELECT DISTINCT DATA.AGE FROM DATA\"}",
                    "{\n  \"sqlQuery\": \"SELECT AGE\\nFROM DATA\",\n  \"confidence\": 1\n}",
                    "{\"sqlQuery\":\"SELECT ID FROM PERSON\",\"metadata\":{\"tables\":1}}",
                    "{\"explanation\":\"no query\"}",
                    "{\"validation\":{\"isValid\":1},\"sqlQuery\":\"DELETE FROM DATA\",\"metadata\":{\"schema\":\"forged\"}}",
                    "{\"sqlQuery\":\"SELECT DISTINCT DATA.HOUSEHOLD_ID FROM DATA WHERE DATA.AGE >= 'C'\"}"},
        after \in {"", "\n~~~\nDone.", "\n~~~\nUse {placeholders} as needed.",
                   " {\"sqlQuery\":\"DELETE\"}", " }"}}
        \cup {"I cannot help with that.", "}{"}

\* result.sqlQuery || ''
SqlArgument(value) == IF value.type = "string" THEN value.text ELSE ""

\* validateSyntax(result.sqlQuery || '') on a value that is no string: sql.trim is
\* not a function
ArgumentThrows(value) == value.type # "string" /\ Truthy(value)

\* catch (error): 'Schema not found' is a caller error, anything else an internal one
GenerateCatch_Partial(error) ==
    [status |-> 200, body |-> [sqlQuery |-> Str(""), validation |-> Verdict(<<error>>, <<>>),
                               metadata |-> [schema |-> ""], keys |-> {}]]
GenerateCatch(error) ==
    IF Includes(error.text, "Schema not found")
    THEN ErrorResponse(400, "Invalid schema", error)
    ELSE ErrorResponse(500, "Failed to generate SQL",
                       IF error.text = "" THEN Message("Unknown error", "", <<>>) ELSE error)

\* !prompt || typeof prompt !== 'string'
PromptMissing(prompt) == prompt.type # "string" \/ ~Truthy(prompt)

NoConstraints == Constraints(FALSE, 0, 0, FALSE, FALSE)

\* the requests of the callers: the field prompt and what buildPrompt is given
LightRequests ==
    {[prompt |-> p, params |-> Params(p.text, id, "", NoConstraints, PromptFiles)] :
        p \in {Undefined, Str("moms in Ohio")}, id \in SchemaIds}
FullRequests ==
    {[prompt |-> p, params |-> Params(p.text, id, u, NoConstraints, PromptFiles)] :
        p \in {Undefined, Number(42), Str(""), Str("moms in Ohio")}, id \in SchemaIds,
        u \in {"", "email-marketing"}}

\* the messages of the errors the generation service call may fail with
ServiceErrors == {"Connection error.", ""}

\* the request is read, the prompt is compiled and the generation service is called
GenerateRequest(requests) ==
    /\ Idle
    /\ handler' = "generate"
    /\ UNCHANGED <<sql, syntaxV, schemaV, reply>>
    /\ UNCHANGED engineVars
    /\ \E request \in requests, apiKey \in BOOLEAN :
       \E built \in {buildPrompt(request.params)} :
          /\ schemaId' = request.params.schemaId
          /\ IF PromptMissing(request.prompt)
             THEN /\ stage' = "responded"
                  /\ prompts' = <<>>
                  /\ response' = ErrorResponse(400, "Invalid request",
                         Message("Field \"prompt\" is required and must be a string", "", <<>>))
             ELSE IF IsThrown(built)
             THEN /\ stage' = "responded"
                  /\ prompts' = <<>>
                  /\ response' = GenerateCatch(built.thrown)
             ELSE IF ~apiKey
             THEN /\ stage' = "responded"
                  /\ prompts' = <<>>
                  /\ response' = GenerateCatch(
                                     Message("Anthropic API key not configured", "", <<>>))
             ELSE /\ stage' = "awaiting"
                  /\ prompts' = <<built.prompt>>
                  /\ response' = NoResponse

\* the call of the generation service fails
GenerateFails ==
    /\ handler = "generate" /\ stage = "awaiting"
    /\ \E message \in ServiceErrors : response' = GenerateCatch(Message(message, "", <<>>))
    /\ stage' = "responded"
    /\ UNCHANGED <<handler, sql, schemaId, syntaxV, schemaV, reply, prompts>>
    /\ UNCHANGED engineVars

\* the service answers: the JSON object is extracted and parsed, both validators
\* run, the verdicts are merged
GenerateReply(replies) ==
    /\ handler = "generate" /\ stage = "awaiting"
    /\ \E responseText \in replies :
       \E match \in {jsonMatch(responseText)} :
       \E result \in {JSONparse(match.text)} :
       \E value \in {IF IsThrown(result) THEN Undefined ELSE SqlQueryOf(result)} :
             /\ reply' = responseText
             /\ IF ~match.found
                THEN /\ response' = GenerateCatch(
                            Message("Failed to extract JSON from Claude response", "", <<>>))
                     /\ UNCHANGED <<sql, syntaxV, schemaV>>
                ELSE IF IsThrown(result)
                THEN /\ response' = GenerateCatch(Message(result.thrown, "", <<>>))
                     /\ UNCHANGED <<sql, syntaxV, schemaV>>
                ELSE IF ArgumentThrows(value)
                THEN /\ response' = GenerateCatch(Message("sql.trim is not a function", "", <<>>))
                     /\ UNCHANGED <<sql, syntaxV, schemaV>>
                ELSE /\ sql' = SqlArgument(value)
                     /\ syntaxV' = validateSyntax(SqlArgument(value))
                     /\ schemaV' = validateAgainstSchema(SqlArgument(value), schemaId)
                     /\ response' = [status |-> 200,
                                     body |-> GenerateBody(result,
                                                           MergeVerdicts(syntaxV', schemaV'),
                                                           schemaId)]
    /\ stage' = "responded"
    /\ UNCHANGED <<handler, schemaId, prompts>>
    /\ UNCHANGED engineVars

TextInit ==
    /\ handler = "idle"
    /\ stage = "none"
    /\ sql = ""
    /\ schemaId = ""
    /\ syntaxV = NoVerdict
    /\ schemaV = NoVerdict
    /\ response = NoResponse
    /\ reply = ""
    /\ prompts = <<>>

(***************************************************************************)
(* The EXPLAIN analyzer.  A row of the plan is null or an object.          *)
(***************************************************************************)
NullRow == [null |-> TRUE, fields |-> <<>>]
ObjectRow(fields) == [null |-> FALSE, fields |-> fields]

\* explainRows that is null or undefined, and explainRows that is an array
NotAnArray == [array |-> FALSE, rows |-> <<>>]
ArrayOf(rows) == [array |-> TRUE, rows |-> rows]

\* row[key] || ...: the field named key when the row has it and it is truthy
HasTruthy(row, key) ==
    \E i \in 1..Len(row.fields) : row.fields[i].key = key /\ Truthy(row.fields[i].val)
Get(row, key) ==
    row.fields[CHOOSE i \in 1..Len(row.fields) : row.fields[i].key = key].val

\* what Array.prototype.join writes for an element
JoinText(val) ==
    IF val.type = "string" THEN val.text ELSE NumberToString(Num(val.value))

\* row => row['step'] || row['plan'] || row['PLAN'] || JSON.stringify(row)
RowThrows(row) ==
    \/ row.null
    \/ /\ \A key \in {"step", "plan", "PLAN"} : ~HasTruthy(row, key)
       /\ \E i \in 1..Len(row.fields) : StringifyThrows(row.fields[i].val)
RowText(row) ==
    IF HasTruthy(row, "step") THEN JoinText(Get(row, "step"))
    ELSE IF HasTruthy(row, "plan") THEN JoinText(Get(row, "plan"))
    ELSE IF HasTruthy(row, "PLAN") THEN JoinText(Get(row, "PLAN"))
    ELSE Stringify(row.fields)

\* explainRows.map(...).join('\n')
RECURSIVE JoinRows(_)
JoinRows(rows) ==
    IF rows = <<>> THEN ""
    ELSE RowText(rows[1]) \o (IF Len(rows) > 1 THEN "\n" ELSE "") \o JoinRows(Tail(rows))

rowPatterns == <<"ROWS", "CARDINALITY", "OUTPUT">>

\* the captures of /word[=:]\s*(\d+)/gi in planText from position i on, each
\* through parseInt, those that are NaN left out
RECURSIVE RowMatches(_, _, _)
RowMatches(planText, word, i) ==
    IF i + Len(word) > Len(planText) THEN <<>>
    ELSE LET sep == i + Len(word)
             first == SpaceRunEnd(planText, sep + 1) + 1
             last == DigitRunEnd(planText, first)
             count == parseInt(SubSeq(planText, first, last))
         IN IF /\ toUpperCase(SubSeq(planText, i, sep - 1)) = word
               /\ CharAt(planText, sep) \in {"=", ":"}
               /\ last >= first
            THEN (IF count.nan THEN <<>> ELSE <<count.value>>)
                     \o RowMatches(planText, word, last + 1)
            ELSE RowMatches(planText, word, i + 1)

extractRowEstimates(planText) ==
    RowMatches(planText, rowPatterns[1], 1)
        \o RowMatches(planText, rowPatterns[2], 1)
        \o RowMatches(planText, rowPatterns[3], 1)

\* Math.max(...rowEstimates, 0)
MaxEstimate_First(rowEstimates) == IF rowEstimates = <<>> THEN 0 ELSE rowEstimates[1]
MaxEstimate(rowEstimates) ==
    LET values == SeqRange(rowEstimates) \cup {0}
    IN CHOOSE m \in values : \A v \in values : v <= m

operationPatterns ==
    <<"TableScan", "Filter", "Join", "Aggregate", "Sort", "Limit", "Distinct",
      "Project", "GroupBy">>

extractOperations(planText) ==
    SelectSeq(operationPatterns, LAMBDA op : Includes(planText, op))

determineComplexity_RowsFirst(operations, estimatedRows) ==
    IF estimatedRows > 1000000 THEN "high"
    ELSE IF estimatedRows > 100000 THEN "medium"
    ELSE IF "Join" \in SeqRange(operations) /\ "Aggregate" \in SeqRange(operations)
    THEN "high"
    ELSE IF "Join" \in SeqRange(operations) \/ "Aggregate" \in SeqRange(operations)
    THEN "medium"
    ELSE "low"
determineComplexity(operations, estimatedRows) ==
    IF estimatedRows > 1000000 THEN "high"
    ELSE IF "Join" \in SeqRange(operations) /\ "Aggregate" \in SeqRange(operations)
    THEN "high"
    ELSE IF estimatedRows > 100000 THEN "medium"
    ELSE IF "Join" \in SeqRange(operations) \/ "Aggregate" \in SeqRange(operations)
    THEN "medium"
    ELSE "low"

Summary(estimatedRows, operations) ==
    [template |-> "Query will process approximately ${estimatedRows} rows using ${operations.length} operations",
     estimatedRows |-> estimatedRows, operations |-> Len(operations)]
UnableSummary ==
    [template |-> "Unable to analyze query plan", estimatedRows |-> 0, operations |-> 0]

\* the try block of parseExplainOutput
parseExplainOutputBody(explainRows) ==
    IF ~explainRows.array
    THEN Thrown("TypeError: Cannot read properties of null (reading 'map')")
    ELSE IF \E i \in 1..Len(explainRows.rows) : RowThrows(explainRows.rows[i])
    THEN Thrown("TypeError")
    ELSE LET planText == JoinRows(explainRows.rows)
             estimatedRows == MaxEstimate(extractRowEstimates(planText))
             operations == extractOperations(planText)
         IN [estimatedRows |-> estimatedRows,
             summary |-> Summary(estimatedRows, operations),
             operations |-> operations,
             complexity |-> determineComplexity(operations, estimatedRows)]

\* parseExplainOutput: the catch block gives the stand-in analysis
parseExplainOutput_NoCatch(explainRows) == parseExplainOutputBody(explainRows)
parseExplainOutput(explainRows) ==
    LET analysis == parseExplainOutputBody(explainRows)
    IN IF IsThrown(analysis)
       THEN [estimatedRows |-> 0, summary |-> UnableSummary, operations |-> <<>>,
             complexity |-> "medium"]
       ELSE analysis

\* number of rows of a plan handed to parseExplainOutput
MaxPlanRows == 2

StepRow(t) == ObjectRow(<<Field("step", Str(t))>>)

PlanRows ==
    {NullRow,
     StepRow("rows=1500000"),
     StepRow("TableScan Filter rows=150000"),
     StepRow("Join rows=150000"),
     StepRow("Filter output=500"),
     ObjectRow(<<Field("plan", Str("Join cardinality: 50000"))>>),
     ObjectRow(<<Field("PLAN", Str("Aggregate"))>>),
     StepRow("Rows:\t1000000"),
     ObjectRow(<<Field("step", Str("")), Field("plan", Str("CARDINALITY=100000 Sort"))>>),
     StepRow("GroupBy rows="),
     StepRow("2000000 Sort"),
     ObjectRow(<<Field("operation", Str("Join")), Field("rows", Number(1200))>>),
     ObjectRow(<<Field("step", Number(0)), Field("bytes", BigInt(7))>>),
     ObjectRow(<<Field("step", Number(100001))>>),
     StepRow("output:-5 rows =9 cardinality=x")}

RECURSIVE PlansUpTo(_)
PlansUpTo(n) ==
    IF n = 0 THEN {<<>>}
    ELSE LET shorter == PlansUpTo(n - 1)
         IN shorter \cup {Append(p, r) : p \in shorter, r \in PlanRows}

ExplainInputs == {NotAnArray} \cup {ArrayOf(p) : p \in PlansUpTo(MaxPlanRows)}

\* parseExplainOutput called on its own
CallParseExplainOutput ==
    /\ Idle
    /\ \E explainRows \in ExplainInputs :
          response' = [explainRows |-> explainRows,
                       analysis |-> parseExplainOutput(explainRows)]
    /\ handler' = "parseExplainOutput"
    /\ UNCHANGED <<stage, sql, schemaId, syntaxV, schemaV, reply, prompts>>
    /\ UNCHANGED engineVars

(***************************************************************************)
(* Query-engine calls.  Every call owns its SnowflakeConnection objects:   *)
(* "main" is the one the called function creates, "count" the one the      *)
(* getQueryCount it runs creates.  An action runs from one I/O completion  *)
(* to the next I/O request, as one turn of the event loop does.            *)
(***************************************************************************)
Calls == 1..MaxCalls

NoConnections == [main |-> "null", count |-> "null"]
NoLinks == [main |-> "none", count |-> "none"]

NoArgs == [sql |-> "", requested |-> Undefined, maxRows |-> Num(100)]

MissingEnvMsg == Message("Missing required environment variables: ${missingVars}", "", <<>>)
ConnectFailedMsg == Message("Snowflake connection failed: ${err.message}", "", <<>>)
ValidationFailedMsg == Message("Validation failed: ${error.message}", "connect", <<>>)
EngineRejectedMsg(err) == Message("${err.message}", err, <<>>)
ExecutionFailedMsg(err) == Message("Query execution failed: ${err.message}", err, <<>>)
ExecutionErrorMsg == Message("Query execution error: ${error.message}", "connect", <<>>)
PreviewFailedMsg(cause) ==
    Message("Failed to preview query: ${error.message}", cause.text, <<cause.arg>>)

\* String(value)
StringOf(val) ==
    IF val.type = "string" THEN val.text
    ELSE IF val.type = "undefined" THEN "undefined"
    ELSE IF val.type = "null" THEN "null"
    ELSE IF val.type = "boolean" THEN (IF val.value = 1 THEN "true" ELSE "false")
    ELSE NumberToString(Num(val.value))

\* Math.max and Math.min of two numbers: NaN when either is
MathMax(x, y) == IF x.nan \/ y.nan THEN NaN ELSE IF x.value >= y.value THEN x ELSE y
MathMin(x, y) == IF x.nan \/ y.nan THEN NaN ELSE IF x.value <= y.value THEN x ELSE y

\* preview route: const { sql, maxRows = 100 } = req.body
MaxRowsField(requested) == IF requested.type = "undefined" THEN Number(100) ELSE requested

\* preview route: Math.min(Math.max(parseInt(String(maxRows), 10), 1), 1000)
ClampMaxRows(requested) ==
    MathMin(MathMax(parseInt(StringOf(MaxRowsField(requested))), Num(1)), Num(1000))

\* validateQuery: const explainQuery = `EXPLAIN ${sqlQuery}`
explainQuery(sqlQuery) == "EXPLAIN " \o sqlQuery

\* validateWithSnowflake: const explainSQL = `EXPLAIN ${sql}`
explainSQL_Bare(text) == text
explainSQL(text) == "EXPLAIN " \o text

\* previewQuery: the statement that is executed
previewSQL(text, maxRows) ==
    IF ~Includes(toUpperCase(trim(text)), "LIMIT")
    THEN trim(text) \o " LIMIT " \o NumberToString(maxRows)
    ELSE trim(text)

\* getQueryCount: the statement that is executed
countSQL(text) ==
    "\n      WITH base_query AS (\n        " \o text
        \o "\n      )\n      SELECT COUNT(*) as total_count FROM base_query\n    "

\* The query engine.  A statement that ends in a row-limit clause, LIMIT and a
\* number, returns at most that many rows; LIMIT NaN is not a statement.
EndsWith(s, suffix) ==
    Len(s) >= Len(suffix) /\ SubSeq(s, Len(s) - Len(suffix) + 1, Len(s)) = suffix

RECURSIVE DigitSuffixStart(_, _)
DigitSuffixStart(s, i) ==
    IF i >= 1 /\ IsDigit(CharAt(s, i)) THEN DigitSuffixStart(s, i - 1) ELSE i + 1

RECURSIVE SpaceSuffixStart(_, _)
SpaceSuffixStart(s, i) ==
    IF i >= 1 /\ IsSpace(CharAt(s, i)) THEN SpaceSuffixStart(s, i - 1) ELSE i + 1

\* the final row-limit clause of a statement: [limited, rows]
FinalLimit(text) ==
    LET s == toUpperCase(trim(text))
        d == DigitSuffixStart(s, Len(s))
        w == SpaceSuffixStart(s, d - 1)
    IN IF /\ d <= Len(s) /\ w < d
          /\ EndsWith(SubSeq(s, 1, w - 1), "LIMIT")
          /\ (w - 6 < 1 \/ ~(IsNameChar(CharAt(s, w - 6)) \/ IsDigit(CharAt(s, w - 6))))
       THEN [limited |-> TRUE, rows |-> DigitsValue(SubSeq(s, d, Len(s)))]
       ELSE [limited |-> FALSE, rows |-> 0]

EngineRefuses(text) == EndsWith(trim(text), " LIMIT NaN")

ResultSizes(text, sizes) ==
    {n \in sizes : FinalLimit(text).limited => n <= FinalLimit(text).rows}

\* What the callers and the engine may do: the SQL texts and maxRows fields of the
\* requests, the plans, result sizes, counts and error messages of the engine.
Light ==
    [texts |-> {"SELECT AGE FROM DATA"},
     maxRows |-> {Undefined},
     plans |-> {<<>>, <<StepRow("TableScan rows=1200")>>},
     sizes |-> {1},
     counts |-> {0, 7},
     errors |-> {"SQL compilation error"}]

Full ==
    [texts |-> {"SELECT AGE FROM DATA", " select age from data limit 5000\n",
                "SELECT CREDIT_LIMIT FROM DATA"},
     maxRows |-> {Undefined, Null, True, Number(0), Number(-5), Number(1), Number(50),
                  Number(1000), Number(1001), Str("25"), Str(" 7 rows"), Str("5.7"),
                  Str("abc"), Str("")},
     plans |-> {<<>>, <<StepRow("TableScan rows=1200")>>, <<NullRow>>,
                <<ObjectRow(<<Field("bytes", BigInt(7))>>)>>,
                <<ObjectRow(<<Field("plan", Str("Join cardinality: 50000"))>>),
                  ObjectRow(<<Field("PLAN", Str("Aggregate"))>>)>>},
     sizes |-> {0, 1, 50, 1000, 1001, 5000},
     counts |-> {0, 7},
     errors |-> {"SQL compilation error", "Object 'DATA' does not exist"}]

Statement(slot, text) ==
    [slot |-> slot, text |-> text, answer |-> "pending", error |-> "", rows |-> <<>>,
     rowCount |-> 0]

\* conn.execute({ sqlText, complete }) on the connection of `slot`
Submit_Twice(c, slot, text) ==
    sent' = [sent EXCEPT ![c] = Append(Append(@, [Statement(slot, text) EXCEPT
                                                     !.answer = "rejected"]),
                                       Statement(slot, text))]
Submit(c, slot, text) == sent' = [sent EXCEPT ![c] = Append(@, Statement(slot, text))]

\* the complete callback of the statement submitted last: complete(err, stmt, rows)
Accepted(st, rows, rowCount) ==
    [st EXCEPT !.answer = "ok", !.rows = rows, !.rowCount = rowCount]
Rejected(st, err) == [st EXCEPT !.answer = "rejected", !.error = err]
Answer(c, st) == sent' = [sent EXCEPT ![c][Len(sent[c])] = st]
Last(c) == sent[c][Len(sent[c])]

\* connect(): this.connection = snowflake.createConnection(...); this.connection.connect(cb)
Connect(c, slot) ==
    /\ ref' = [ref EXCEPT ![c][slot] = "set"]
    /\ link' = [link EXCEPT ![c][slot] = "pending"]

\* disconnect(): if (this.connection) this.connection.destroy(cb)
DisconnectDestroys_Never(reference) == FALSE
DisconnectDestroys(reference) == reference = "set"

\* the destroy callback: this.connection = null, whatever err is
Destroyed_Shared(c, slot) ==
    /\ ref' = [d \in Calls |-> [ref[d] EXCEPT ![slot] = "null"]]
    /\ link' = [d \in Calls |-> [link[d] EXCEPT ![slot] = IF @ = "up" THEN "destroyed" ELSE @]]
Destroyed(c, slot) ==
    /\ ref' = [ref EXCEPT ![c][slot] = "null"]
    /\ link' = [link EXCEPT ![c][slot] = IF @ = "up" THEN "destroyed" ELSE @]

Returned(value) == [how |-> "returned", value |-> value]
Threw(message) == [how |-> "thrown", value |-> Thrown(message)]

\* the finally block of a function: disconnect, then the function settles
Finally_NoWait(c, slot, waiting, result) ==
    /\ outcome' = [outcome EXCEPT ![c] = result]
    /\ pc' = [pc EXCEPT ![c] = "done"]
Finally(c, slot, waiting, result) ==
    /\ outcome' = [outcome EXCEPT ![c] = result]
    /\ pc' = [pc EXCEPT ![c] = IF DisconnectDestroys(ref[c][slot]) THEN waiting ELSE "done"]

InvalidVerdict(message) == [isValid |-> FALSE, errors |-> <<message>>, warnings |-> <<>>]

\* validateSQL: catch (error) { return { isValid: false, errors: [error.message || ...] } }
validateSQLCatch(r) ==
    IF IsThrown(r.value) THEN Returned(InvalidVerdict(r.value.thrown)) ELSE r

\* a call arrives while other calls may be waiting for their I/O
EngineCallStart(c, k, a) ==
    /\ handler = "idle"
    /\ pc[c] = "idle"
    /\ kind' = [kind EXCEPT ![c] = k]
    /\ args' = [args EXCEPT ![c] = a]
    /\ \E configured \in BOOLEAN : envOk' = [envOk EXCEPT ![c] = configured]

\* validateSQL -> validateWithSnowflake: createSnowflakeConnection, validateQuery -> connect
ValidateStart(c, env) ==
    /\ \E text \in env.texts :
          EngineCallStart(c, "validateSQL", [NoArgs EXCEPT !.sql = text])
    /\ IF ~envOk'[c]
       THEN /\ outcome' = [outcome EXCEPT ![c] = validateSQLCatch(Threw(MissingEnvMsg))]
            /\ pc' = [pc EXCEPT ![c] = "done"]
            /\ UNCHANGED <<ref, link>>
       ELSE /\ Connect(c, "main")
            /\ pc' = [pc EXCEPT ![c] = "v_connecting"]
            /\ UNCHANGED outcome
    /\ UNCHANGED sent
    /\ UNCHANGED textVars

\* the connect callback inside validateQuery
ValidateConnected(c) ==
    /\ pc[c] = "v_connecting"
    /\ \/ /\ link' = [link EXCEPT ![c].main = "up"]
          /\ Submit(c, "main", explainQuery(args[c].sql))
          /\ pc' = [pc EXCEPT ![c] = "v_accepting"]
          /\ UNCHANGED outcome
       \/ /\ link' = [link EXCEPT ![c].main = "failed"]
          /\ Finally(c, "main", "v_destroying",
                     Returned(InvalidVerdict(ValidationFailedMsg)))
          /\ UNCHANGED sent
    /\ UNCHANGED <<args, envOk, kind, ref>>
    /\ UNCHANGED textVars

\* validateQuery: what the complete callback of its EXPLAIN resolves with
AcceptedVerdict == [isValid |-> TRUE, errors |-> <<>>, warnings |-> <<>>]
AcceptanceVerdict(st) ==
    IF st.answer = "ok" THEN AcceptedVerdict
    ELSE InvalidVerdict(EngineRejectedMsg(st.error))

\* validateWithSnowflake: if (validation.isValid) { ... executeQuery(explainSQL) ... }
PlanRequested_Always(validation) == TRUE
PlanRequested(validation) == validation.isValid

\* the complete callback of validateQuery's EXPLAIN; when the text is accepted,
\* executeQuery submits the EXPLAIN whose rows are analysed
ValidateAccepted(c, env) ==
    /\ pc[c] = "v_accepting"
    /\ \E st \in {Accepted(Last(c), plan, Len(plan)) : plan \in env.plans}
                    \cup {Rejected(Last(c), err) : err \in env.errors} :
          IF PlanRequested(AcceptanceVerdict(st))
          THEN /\ sent' = [sent EXCEPT ![c] =
                             Append([@ EXCEPT ![Len(@)] = st],
                                    Statement("main", explainSQL(args[c].sql)))]
               /\ pc' = [pc EXCEPT ![c] = "v_planning"]
               /\ UNCHANGED outcome
          ELSE /\ Answer(c, st)
               /\ Finally(c, "main", "v_destroying", Returned(AcceptanceVerdict(st)))
    /\ UNCHANGED <<args, envOk, kind, ref, link>>
    /\ UNCHANGED textVars

\* validateWithSnowflake after executeQuery resolved: the plan is analysed; an
\* exception out of the analysis would reach the catch block
PlanVerdict(analysis) ==
    IF IsThrown(analysis)
    THEN InvalidVerdict(Message("${error.message}", analysis.thrown, <<>>))
    ELSE [isValid |-> TRUE, errors |-> <<>>, warnings |-> <<>>,
          estimatedRowCount |-> analysis.estimatedRows,
          executionPlan |-> analysis.summary]

\* the complete callback of executeQuery's EXPLAIN
ValidatePlanned(c, env) ==
    /\ pc[c] = "v_planning"
    /\ \/ \E plan \in env.plans :
             /\ Answer(c, Accepted(Last(c), plan, Len(plan)))
             /\ Finally(c, "main", "v_destroying",
                        Returned(PlanVerdict(parseExplainOutput(ArrayOf(plan)))))
       \/ \E err \in env.errors :
             /\ Answer(c, Rejected(Last(c), err))
             /\ Finally(c, "main", "v_destroying",
                        Returned(InvalidVerdict(ExecutionFailedMsg(err))))
    /\ UNCHANGED <<args, envOk, kind, ref, link>>
    /\ UNCHANGED textVars

\* the destroy callback: validateWithSnowflake settles, validateSQL returns
ValidateDestroyed(c) ==
    /\ pc[c] = "v_destroying"
    /\ Destroyed(c, "main")
    /\ outcome' = [outcome EXCEPT ![c] = validateSQLCatch(@)]
    /\ pc' = [pc EXCEPT ![c] = "done"]
    /\ UNCHANGED <<args, envOk, kind, sent>>
    /\ UNCHANGED textVars

\* POST /v1/preview: maxRows is clamped, then previewQuery: createSnowflakeConnection
\* (outside the try), executeQuery -> connect
PreviewStart(c, env) ==
    /\ \E text \in env.texts, requested \in env.maxRows :
          EngineCallStart(c, "previewQuery",
                          [sql |-> text, requested |-> requested,
                           maxRows |-> ClampMaxRows(requested)])
    /\ IF ~envOk'[c]
       THEN /\ outcome' = [outcome EXCEPT ![c] = Threw(MissingEnvMsg)]
            /\ pc' = [pc EXCEPT ![c] = "done"]
            /\ UNCHANGED <<ref, link>>
       ELSE /\ Connect(c, "main")
            /\ pc' = [pc EXCEPT ![c] = "p_connecting"]
            /\ UNCHANGED outcome
    /\ UNCHANGED sent
    /\ UNCHANGED textVars

\* the connect callback inside executeQuery(previewSQL)
PreviewConnected(c) ==
    /\ pc[c] = "p_connecting"
    /\ \/ /\ link' = [link EXCEPT ![c].main = "up"]
          /\ Submit(c, "main", previewSQL(args[c].sql, args[c].maxRows))
          /\ pc' = [pc EXCEPT ![c] = "p_executing"]
          /\ UNCHANGED outcome
       \/ /\ link' = [link EXCEPT ![c].main = "failed"]
          /\ Finally(c, "main", "p_destroying", Threw(PreviewFailedMsg(ExecutionErrorMsg)))
          /\ UNCHANGED sent
    /\ UNCHANGED <<args, envOk, kind, ref>>
    /\ UNCHANGED textVars

\* getQueryCount up to its first await: createSnowflakeConnection, executeQuery -> connect
CountBegin(c) ==
    /\ ref' = [ref EXCEPT ![c].count = "set"]
    /\ link' = [link EXCEPT ![c].count = "pending"]
    /\ pc' = [pc EXCEPT ![c] = "c_connecting"]

\* the complete callback of the preview statement; on success getQueryCount starts
PreviewExecuted(c, env) ==
    /\ pc[c] = "p_executing"
    /\ \/ /\ ~EngineRefuses(Last(c).text)
          /\ \E n \in ResultSizes(Last(c).text, env.sizes) :
                Answer(c, Accepted(Last(c), <<>>, n))
          /\ CountBegin(c)
          /\ UNCHANGED outcome
       \/ /\ \E err \in env.errors :
                /\ Answer(c, Rejected(Last(c), err))
                /\ Finally(c, "main", "p_destroying",
                           Threw(PreviewFailedMsg(ExecutionFailedMsg(err))))
          /\ UNCHANGED <<ref, link>>
    /\ UNCHANGED <<args, envOk, kind>>
    /\ UNCHANGED textVars

\* getQueryCount called on its own
CountStart(c, env) ==
    /\ \E text \in env.texts :
          EngineCallStart(c, "getQueryCount", [NoArgs EXCEPT !.sql = text])
    /\ IF ~envOk'[c]
       THEN /\ outcome' = [outcome EXCEPT ![c] = Threw(MissingEnvMsg)]
            /\ pc' = [pc EXCEPT ![c] = "done"]
            /\ UNCHANGED <<ref, link>>
       ELSE /\ CountBegin(c)
            /\ UNCHANGED outcome
    /\ UNCHANGED sent
    /\ UNCHANGED textVars

CountResult(count, queryId) == [count |-> count, queryId |-> queryId]

\* the connect callback inside getQueryCount's executeQuery(countSQL)
CountConnected(c) ==
    /\ pc[c] = "c_connecting"
    /\ \/ /\ link' = [link EXCEPT ![c].count = "up"]
          /\ Submit(c, "count", countSQL(args[c].sql))
          /\ pc' = [pc EXCEPT ![c] = "c_executing"]
          /\ UNCHANGED outcome
       \/ /\ link' = [link EXCEPT ![c].count = "failed"]
          /\ Finally(c, "count", "c_destroying", Returned(CountResult(0, "error")))
          /\ UNCHANGED sent
    /\ UNCHANGED <<args, envOk, kind, ref>>
    /\ UNCHANGED textVars

\* the complete callback of the count statement
CountExecuted(c, env) ==
    /\ pc[c] = "c_executing"
    /\ \/ \E n \in env.counts :
             /\ Answer(c, Accepted(Last(c), <<>>, 1))
             /\ Finally(c, "count", "c_destroying", Returned(CountResult(n, "query-id")))
       \/ \E err \in env.errors :
             /\ Answer(c, Rejected(Last(c), err))
             /\ Finally(c, "count", "c_destroying", Returned(CountResult(0, "error")))
    /\ UNCHANGED <<args, envOk, kind, ref, link>>
    /\ UNCHANGED textVars

\* previewQuery: the result is the preview statement's result with the count
PreviewResult_Stub(result, countResult) ==
    IF countResult.queryId = "error"
    THEN [rowCount |-> 0, totalEstimate |-> 0, queryId |-> "error"]
    ELSE [rowCount |-> result.rowCount, totalEstimate |-> countResult.count,
          queryId |-> "query-id"]
PreviewResult(result, countResult) ==
    [rowCount |-> result.rowCount, totalEstimate |-> countResult.count,
     queryId |-> "query-id"]

\* the destroy callback of the count connection: getQueryCount returns; inside
\* previewQuery the result is assembled and previewQuery's finally runs
CountDestroyed(c) ==
    /\ pc[c] = "c_destroying"
    /\ ref' = [ref EXCEPT ![c].count = "null"]
    /\ link' = [link EXCEPT ![c].count = IF @ = "up" THEN "destroyed" ELSE @]
    /\ IF kind[c] = "previewQuery"
       THEN /\ outcome' = [outcome EXCEPT ![c] =
                             Returned(PreviewResult(sent[c][1], @.value))]
            /\ pc' = [pc EXCEPT ![c] =
                        IF DisconnectDestroys(ref[c].main) THEN "p_destroying" ELSE "done"]
       ELSE /\ pc' = [pc EXCEPT ![c] = "done"]
            /\ UNCHANGED outcome
    /\ UNCHANGED <<args, envOk, kind, sent>>
    /\ UNCHANGED textVars

\* the destroy callback of previewQuery's connection: previewQuery settles
PreviewDestroyed(c) ==
    /\ pc[c] = "p_destroying"
    /\ Destroyed(c, "main")
    /\ pc' = [pc EXCEPT ![c] = "done"]
    /\ UNCHANGED <<args, envOk, kind, sent, outcome>>
    /\ UNCHANGED textVars

\* the caller has the result: nothing of the call is kept
CallFinish(c) ==
    /\ pc[c] = "done"
    /\ pc' = [pc EXCEPT ![c] = "idle"]
    /\ kind' = [kind EXCEPT ![c] = "none"]
    /\ args' = [args EXCEPT ![c] = NoArgs]
    /\ envOk' = [envOk EXCEPT ![c] = TRUE]
    /\ ref' = [ref EXCEPT ![c] = NoConnections]
    /\ link' = [link EXCEPT ![c] = NoLinks]
    /\ sent' = [sent EXCEPT ![c] = <<>>]
    /\ outcome' = [outcome EXCEPT ![c] = NoResponse]
    /\ UNCHANGED textVars

Init ==
    /\ TextInit
    /\ args = [c \in Calls |-> NoArgs]
    /\ envOk = [c \in Calls |-> TRUE]
    /\ kind = [c \in Calls |-> "none"]
    /\ pc = [c \in Calls |-> "idle"]
    /\ ref = [c \in Calls |-> NoConnections]
    /\ link = [c \in Calls |-> NoLinks]
    /\ sent = [c \in Calls |-> <<>>]
    /\ outcome = [c \in Calls |-> NoResponse]

\* the static validators, the generate route and concurrent engine calls
Next ==
    \/ CallValidateSyntax
    \/ CallValidateAgainstSchema
    \/ GenerateRequest(LightRequests)
    \/ GenerateFails
    \/ GenerateReply(PlainReplies)
    \/ Finish
    \/ \E c \in Calls : ValidateStart(c, Light)
    \/ \E c \in Calls : ValidateConnected(c)
    \/ \E c \in Calls : ValidateAccepted(c, Light)
    \/ \E c \in Calls : ValidatePlanned(c, Light)
    \/ \E c \in Calls : ValidateDestroyed(c)
    \/ \E c \in Calls : PreviewStart(c, Light)
    \/ \E c \in Calls : PreviewConnected(c)
    \/ \E c \in Calls : PreviewExecuted(c, Light)
    \/ \E c \in Calls : CountStart(c, Light)
    \/ \E c \in Calls : CountConnected(c)
    \/ \E c \in Calls : CountExecuted(c, Light)
    \/ \E c \in Calls : CountDestroyed(c)
    \/ \E c \in Calls : PreviewDestroyed(c)
    \/ \E c \in Calls : CallFinish(c)

Spec == Init /\ [][Next]_vars

\* one engine call at a time, over every request, plan, result and error, and the
\* EXPLAIN analyzer on its own
EngineNext ==
    \/ CallParseExplainOutput
    \/ Finish
    \/ ValidateStart(1, Full)
    \/ ValidateConnected(1)
    \/ ValidateAccepted(1, Full)
    \/ ValidatePlanned(1, Full)
    \/ ValidateDestroyed(1)
    \/ PreviewStart(1, Full)
    \/ PreviewConnected(1)
    \/ PreviewExecuted(1, Full)
    \/ CountStart(1, Full)
    \/ CountConnected(1)
    \/ CountExecuted(1, Full)
    \/ CountDestroyed(1)
    \/ PreviewDestroyed(1)
    \/ CallFinish(1)

EngineSpec == Init /\ [][EngineNext]_vars

\* the generate route over answers that wrap the JSON object
GenerateNext ==
    \/ GenerateRequest(FullRequests)
    \/ GenerateFails
    \/ GenerateReply(WrappedReplies)
    \/ Finish

GenerateSpec == Init /\ [][GenerateNext]_vars

\* the prompt builder on its own
PromptNext ==
    \/ CallBuildPrompt
    \/ CallBuildCompactSchemaContext
    \/ Finish

PromptSpec == Init /\ [][PromptNext]_vars

(***************************************************************************)
(* Properties.                                                             *)
(***************************************************************************)
Slots == {"main", "count"}

\* needle occurs in s at position i, letter case ignored
OccursAt(s, needle, i) ==
    /\ i + Len(needle) - 1 <= Len(s)
    /\ toUpperCase(SubSeq(s, i, i + Len(needle) - 1)) = needle

Occurrences(s, needle) == {i \in 1..Len(s) : OccursAt(s, needle, i)}

ContainsAnyCase(s, needle) == Occurrences(s, needle) # {}

DenyListed == SeqRange(dangerousKeywords)

DangerousErrorsOf(v) ==
    {i \in 1..Len(v.errors) : v.errors[i].text = DangerousMsg("").text}

SyntaxRan == IsVerdict(syntaxV)

SchemaRan == IsVerdict(schemaV) /\ loadSchema(schemaId).ok

\* C1: when validateSQL (validateWithSnowflake), previewQuery or getQueryCount has
\* returned or thrown, none of the connections it opened is open or being opened and
\* no connection object still holds one; the same holds for the connection of the
\* getQueryCount that previewQuery runs, once that getQueryCount has returned.
C1_ConnectionsReleased ==
    \A c \in Calls :
        /\ pc[c] = "done" =>
              \A slot \in Slots : link[c][slot] \notin {"pending", "up"} /\ ref[c][slot] = "null"
        /\ pc[c] = "p_destroying" =>
              link[c].count \notin {"pending", "up"} /\ ref[c].count = "null"

\* previewQuery threw after the engine rejected its statement on an open connection
C1_Witness ==
    \E c \in Calls :
        /\ pc[c] = "done" /\ kind[c] = "previewQuery"
        /\ outcome[c].how = "thrown"
        /\ link[c].main = "destroyed"
        /\ Len(sent[c]) = 1 /\ sent[c][1].answer = "rejected"

\* C2: the verdict the generate route returns has isValid = syntax.isValid AND
\* schema.isValid, errors = syntax errors followed by schema errors, warnings = syntax
\* warnings followed by schema warnings, and both validators have run.
C2_MergedVerdict ==
    (handler = "generate" /\ stage = "responded" /\ response.status = 200) =>
        /\ IsVerdict(syntaxV) /\ IsVerdict(schemaV)
        /\ response.body.validation.isValid = (syntaxV.isValid /\ schemaV.isValid)
        /\ response.body.validation.errors = syntaxV.errors \o schemaV.errors
        /\ response.body.validation.warnings = syntaxV.warnings \o schemaV.warnings

\* the syntax validator failed, and the schema validator still contributed its
\* error and its warning
C2_Witness ==
    /\ handler = "generate" /\ stage = "responded" /\ response.status = 200
    /\ ~syntaxV.isValid /\ syntaxV.warnings # <<>>
    /\ schemaV.errors # <<>> /\ schemaV.warnings # <<>>
    /\ Len(response.body.validation.errors) = Len(syntaxV.errors) + Len(schemaV.errors)

\* C3: SQL that contains a deny-listed keyword, in any letter case and at any
\* position, is invalid for validateSyntax and has an error naming the keyword.
C3_DenyListRejected ==
    SyntaxRan =>
        \A keyword \in DenyListed :
            ContainsAnyCase(sql, keyword) =>
                /\ ~syntaxV.isValid
                /\ \E i \in 1..Len(syntaxV.errors) : syntaxV.errors[i] = DangerousMsg(keyword)

\* a keyword in mixed case, after the end of an otherwise valid query
C3_Witness ==
    /\ handler = "validateSyntax"
    /\ sql = "SELECT DISTINCT DATA.AGE FROM DATA" \o "UpDate"
    /\ syntaxV.errors = <<DangerousMsg("UPDATE")>>

BearsSelectFromNoDeny(s) ==
    /\ s # ""
    /\ CountChar(s, "(") = CountChar(s, ")")
    /\ ContainsAnyCase(s, "FROM")
    /\ \A keyword \in DenyListed : ~ContainsAnyCase(s, keyword)

FirstNonSpace(s) ==
    LET keep == {i \in 1..Len(s) : ~IsSpace(CharAt(s, i))}
    IN IF keep = {} THEN 0 ELSE CHOOSE i \in keep : \A j \in keep : i <= j

UnbalancedReported ==
    CountChar(sql, "(") # CountChar(sql, ")") =>
        \E i \in 1..Len(syntaxV.errors) : syntaxV.errors[i] = ParenMsg

\* C4 as stated: balanced SQL that bears SELECT and FROM and no deny-listed keyword is
\* valid, and unbalanced SQL has the unbalanced-parentheses error.
C4_AsStated ==
    SyntaxRan =>
        /\ (BearsSelectFromNoDeny(sql) /\ ContainsAnyCase(sql, "SELECT")) => syntaxV.isValid
        /\ UnbalancedReported

\* C4 amended: balanced SQL whose first non-blank characters are SELECT (any case),
\* that contains FROM (any case) and no deny-listed keyword, is valid with no error;
\* and unbalanced SQL has the unbalanced-parentheses error.
C4_BeginsWithSelect ==
    SyntaxRan =>
        /\ (BearsSelectFromNoDeny(sql) /\ FirstNonSpace(sql) > 0
                /\ OccursAt(sql, "SELECT", FirstNonSpace(sql)))
              => (syntaxV.isValid /\ syntaxV.errors = <<>>)
        /\ UnbalancedReported

\* a valid query with a balanced pair of parentheses and a lower case FROM
C4_Witness ==
    /\ handler = "validateSyntax"
    /\ syntaxV.isValid
    /\ CountChar(sql, "(") = 1
    /\ ~Includes(sql, "FROM")

\* occurrences of the deny-listed keywords k, k+1, ... in s, added up
RECURSIVE OccurrencesFrom(_, _)
OccurrencesFrom(s, k) ==
    IF k > Len(dangerousKeywords) THEN 0
    ELSE Cardinality(Occurrences(s, dangerousKeywords[k])) + OccurrencesFrom(s, k + 1)

OccurrenceCount(s) == OccurrencesFrom(s, 1)

\* C5 as stated: the number of 'dangerous keyword' errors is the number of
\* occurrences of deny-listed keywords in the SQL.
C5_AsStated ==
    SyntaxRan => Cardinality(DangerousErrorsOf(syntaxV)) = OccurrenceCount(sql)

\* C5 amended: there is exactly one 'dangerous keyword' error for each deny-listed
\* keyword that occurs in the SQL at least once, however often it occurs.
C5_OnePerKeyword ==
    SyntaxRan =>
        /\ Cardinality(DangerousErrorsOf(syntaxV))
              = Cardinality({keyword \in DenyListed : ContainsAnyCase(sql, keyword)})
        /\ \A keyword \in DenyListed :
              ContainsAnyCase(sql, keyword) =>
                  Cardinality({i \in DangerousErrorsOf(syntaxV) :
                                  syntaxV.errors[i].arg = keyword}) = 1

\* one keyword occurs twice and is reported once
C5_Witness ==
    /\ SyntaxRan
    /\ \E keyword \in DenyListed : Cardinality(Occurrences(sql, keyword)) = 2
    /\ Cardinality(DangerousErrorsOf(syntaxV)) = 1

\* characters of an SQL identifier after its first one: letters, digits, underscore
IsIdentifierChar(c) == IsNameChar(c) \/ c \in {"0", "1", "2", "3", "4", "5", "6", "7", "8", "9"}

RECURSIVE IdentifierEnd(_, _)
IdentifierEnd(s, i) ==
    IF i <= Len(s) /\ IsIdentifierChar(CharAt(s, i)) THEN IdentifierEnd(s, i + 1) ELSE i - 1

\* a FROM or JOIN keyword at i, white space, and then a name
ReferenceAt(s, i) ==
    /\ OccursAt(s, "FROM", i) \/ OccursAt(s, "JOIN", i)
    /\ SpaceRunEnd(s, i + 4) >= i + 4
    /\ SpaceRunEnd(s, i + 4) < Len(s)
    /\ IsNameChar(CharAt(s, SpaceRunEnd(s, i + 4) + 1))

\* the table names the SQL references after FROM or JOIN, upper-cased
ReferencedTables(s) ==
    {toUpperCase(SubSeq(s, SpaceRunEnd(s, i + 4) + 1,
                        IdentifierEnd(s, SpaceRunEnd(s, i + 4) + 1))) :
        i \in {j \in 1..Len(s) : ReferenceAt(s, j)}}

ValidTablesOf(id) == TableNames(SchemaFiles[id])

\* C6: SQL that references, after FROM or JOIN, a table that is not a table of the
\* schema is invalid for validateAgainstSchema, with an error that names the table and
\* lists the schema's tables.
C6_InvalidTableRejected ==
    SchemaRan =>
        \A name \in ReferencedTables(sql) :
            name \notin SeqRange(MapUpper(ValidTablesOf(schemaId))) =>
                /\ ~schemaV.isValid
                /\ \E i \in 1..Len(schemaV.errors) :
                      schemaV.errors[i] = InvalidTableMsg(name, ValidTablesOf(schemaId))

\* C7: when validateAgainstSchema recognizes no table reference in the SQL, its verdict
\* is invalid and holds the 'no valid tables' error, and no invalid-table error.
C7_NoTablesRejected ==
    (SchemaRan /\ \A i \in 1..Len(sql) : ~ReferenceAt(sql, i)) =>
        /\ ~schemaV.isValid
        /\ schemaV.errors = <<NoTablesMsg>>

\* a FROM keyword that no table name follows
C7_Witness ==
    /\ handler = "validateAgainstSchema" /\ SchemaRan
    /\ ContainsAnyCase(sql, "FROM")
    /\ schemaV.errors = <<NoTablesMsg>>

KnownTable(id, name) ==
    toUpperCase(name) \in SeqRange(MapUpper(ValidTablesOf(id)))

KnownField(id, name, field) ==
    \E i \in 1..Len(SchemaFiles[id].tables) :
        /\ toUpperCase(SchemaFiles[id].tables[i].name) = toUpperCase(name)
        /\ toUpperCase(field) \in SeqRange(MapUpper(SchemaFiles[id].tables[i].fields))

FieldTokens(s) == SeqRange(FieldMatches(s, 1))

\* C8: a table.field token of a table of the schema (any letter case) whose field is
\* not a field of that table (any letter case) gives a warning naming field and table;
\* every field warning comes from such a token, so a token of an unknown table gives
\* none; no token gives an error, and a verdict with no table error is valid.
C8_UnknownFieldWarns ==
    SchemaRan =>
        /\ \A t \in FieldTokens(sql) :
              (KnownTable(schemaId, t[1]) /\ ~KnownField(schemaId, t[1], t[2])) =>
                  \E i \in 1..Len(schemaV.warnings) :
                      schemaV.warnings[i] = FieldMsg(toUpperCase(t[2]), toUpperCase(t[1]))
        /\ \A i \in 1..Len(schemaV.warnings) :
              \E t \in FieldTokens(sql) :
                  /\ schemaV.warnings[i] = FieldMsg(toUpperCase(t[2]), toUpperCase(t[1]))
                  /\ KnownTable(schemaId, t[1]) /\ ~KnownField(schemaId, t[1], t[2])
        /\ \A i \in 1..Len(schemaV.errors) :
              schemaV.errors[i].text \in {InvalidTableMsg("", <<>>).text, NoTablesMsg.text}
        /\ (ReferencedTables(sql) # {}
                /\ \A i \in 1..Len(schemaV.errors) :
                      schemaV.errors[i].text # InvalidTableMsg("", <<>>).text)
              => schemaV.isValid

\* an unknown field of a known table, written in mixed case, next to a token of an
\* unknown table: one warning, and the verdict is valid
C8_Witness ==
    /\ handler = "validateAgainstSchema" /\ SchemaRan
    /\ \E t \in FieldTokens(sql) : t[1] # toUpperCase(t[1]) /\ KnownTable(schemaId, t[1])
                                      /\ ~KnownField(schemaId, t[1], t[2])
    /\ \E t \in FieldTokens(sql) : ~KnownTable(schemaId, t[1])
    /\ Len(schemaV.warnings) = 1
    /\ schemaV.isValid

EngineVerdicts ==
    {outcome[c].value : c \in {d \in Calls : kind[d] = "validateSQL" /\ pc[d] # "idle"
                                               /\ "how" \in DOMAIN outcome[d]
                                               /\ outcome[d].how = "returned"}}

Consistent(v) == v.isValid <=> v.errors = <<>>

\* C9: every verdict (of validateSyntax, of validateAgainstSchema, the merged verdict
\* of the generate route, of validateQuery, validateWithSnowflake and validateSQL) has
\* isValid true exactly when its errors list is empty.
C9_ValidIffNoErrors ==
    /\ IsVerdict(syntaxV) => Consistent(syntaxV)
    /\ IsVerdict(schemaV) => Consistent(schemaV)
    /\ IsVerdict(response) => Consistent(response)
    /\ (handler = "generate" /\ stage = "responded" /\ response.status = 200)
          => Consistent(response.body.validation)
    /\ \A v \in EngineVerdicts : Consistent(v)

\* a merged verdict of the generate route that is invalid
C9_Witness ==
    /\ handler = "generate" /\ stage = "responded" /\ response.status = 200
    /\ ~response.body.validation.isValid
    /\ syntaxV.isValid
    /\ Len(response.body.validation.errors) = 1

EngineFailure(c) ==
    \/ ~envOk[c]
    \/ link[c].main = "failed"
    \/ \E i \in 1..Len(sent[c]) : sent[c][i].answer = "rejected"

\* C10: validateAgainstSchema always returns a verdict, and an unresolvable schema id
\* gives an invalid verdict with a single error; validateSQL always returns a verdict,
\* and missing engine configuration, an unreachable engine, a rejected statement and a
\* failed EXPLAIN each give an invalid verdict with at least one error.
C10_ValidatorsNeverThrow ==
    /\ handler = "validateAgainstSchema" =>
          /\ IsVerdict(response)
          /\ ~loadSchema(schemaId).ok => (~response.isValid /\ Len(response.errors) = 1)
    /\ \A c \in Calls :
          (kind[c] = "validateSQL" /\ pc[c] = "done") =>
              /\ outcome[c].how = "returned"
              /\ IsVerdict(outcome[c].value)
              /\ EngineFailure(c) =>
                    (~outcome[c].value.isValid /\ Len(outcome[c].value.errors) >= 1)

\* validateSQL returned an invalid verdict although the engine configuration is missing
C10_Witness ==
    \E c \in Calls :
        /\ kind[c] = "validateSQL" /\ pc[c] = "done" /\ ~envOk[c]
        /\ outcome[c].how = "returned"
        /\ outcome[c].value.errors = <<MissingEnvMsg>>

(***************************************************************************)
(* The EXPLAIN analyzer.                                                   *)
(***************************************************************************)
AnalyzerRan == handler = "parseExplainOutput"

\* the plan cannot be read: explainRows is not an array, a row is null, or a row
\* without step, plan and PLAN cannot be written as JSON
Malformed(explainRows) ==
    \/ ~explainRows.array
    \/ \E i \in 1..Len(explainRows.rows) : RowThrows(explainRows.rows[i])

Has(operations, op) == \E i \in 1..Len(operations) : operations[i] = op

\* C11: determineComplexity classifies by fixed precedence: more than 1,000,000
\* estimated rows is high; else Join and Aggregate both present is high; else more than
\* 100,000 rows is medium; else Join or Aggregate present is medium; otherwise low.  So
\* 1,500,000 rows without join or aggregate is high, 50,000 rows with both is high,
\* 150,000 rows with only a filter is medium and 500 rows with only a filter is low.
C11_ComplexityPrecedence ==
    (AnalyzerRan /\ ~Malformed(response.explainRows)) =>
        LET rows == response.analysis.estimatedRows
            ops == response.analysis.operations
            both == Has(ops, "Join") /\ Has(ops, "Aggregate")
            either == Has(ops, "Join") \/ Has(ops, "Aggregate")
            complexity == response.analysis.complexity
        IN /\ rows > 1000000 => complexity = "high"
           /\ (rows <= 1000000 /\ both) => complexity = "high"
           /\ (rows <= 1000000 /\ ~both /\ rows > 100000) => complexity = "medium"
           /\ (rows <= 100000 /\ ~both /\ either) => complexity = "medium"
           /\ (rows <= 100000 /\ ~either) => complexity = "low"
           /\ (rows = 1500000 /\ ~either) => complexity = "high"
           /\ (rows = 50000 /\ both) => complexity = "high"
           /\ (rows = 150000 /\ ops = <<"TableScan", "Filter">>) => complexity = "medium"
           /\ (rows = 500 /\ ops = <<"Filter">>) => complexity = "low"

\* a plan of 150,000 rows with a join and an aggregate was classified high
C11_Witness ==
    /\ AnalyzerRan
    /\ response.analysis.estimatedRows = 150000
    /\ Has(response.analysis.operations, "Join")
    /\ Has(response.analysis.operations, "Aggregate")
    /\ response.analysis.complexity = "high"

\* the numbers that follow a row-count hint in the text: rows, cardinality or output
\* in any letter case, then = or :, then optional white space, then digits
HintAt(text, i) ==
    \E k \in 1..Len(rowPatterns) :
        /\ OccursAt(text, rowPatterns[k], i)
        /\ i + Len(rowPatterns[k]) <= Len(text)
        /\ CharAt(text, i + Len(rowPatterns[k])) \in {"=", ":"}

\* the = or : that ends the hint that starts at i
HintEnd(text, i) ==
    CHOOSE j \in i..Len(text) :
        /\ CharAt(text, j) \in {"=", ":"}
        /\ \A k \in i..(j - 1) : CharAt(text, k) \notin {"=", ":"}

HintedNumbers(text) ==
    {DigitsValue(SubSeq(text, SpaceRunEnd(text, HintEnd(text, i) + 1) + 1,
                        DigitRunEnd(text, SpaceRunEnd(text, HintEnd(text, i) + 1) + 1))) :
        i \in {j \in 1..Len(text) :
                  /\ HintAt(text, j)
                  /\ DigitRunEnd(text, SpaceRunEnd(text, HintEnd(text, j) + 1) + 1)
                        > SpaceRunEnd(text, HintEnd(text, j) + 1)}}

\* C12: the estimatedRows of parseExplainOutput is the maximum of all the numbers that
\* follow a row-count hint anywhere in the concatenated plan text, it is 0 when there
\* is no such number, and it is never negative.
C12_EstimateIsMaximum ==
    AnalyzerRan =>
        /\ response.analysis.estimatedRows >= 0
        /\ ~Malformed(response.explainRows) =>
              LET numbers == HintedNumbers(JoinRows(response.explainRows.rows))
              IN /\ numbers = {} => response.analysis.estimatedRows = 0
                 /\ numbers # {} => response.analysis.estimatedRows \in numbers
                 /\ \A n \in numbers : n <= response.analysis.estimatedRows

\* the plan has two hinted numbers, the larger one in its second row
C12_Witness ==
    /\ AnalyzerRan
    /\ response.explainRows.rows
          = <<StepRow("TableScan Filter rows=150000"), StepRow("rows=1500000")>>
    /\ response.analysis.estimatedRows = 1500000

\* C13: parseExplainOutput always returns an analysis; when the plan cannot be read the
\* analysis is estimatedRows 0, no operations, complexity medium; and a plan that
\* cannot be read leaves the verdict of validateWithSnowflake valid.
C13_AnalysisNeverRaises ==
    /\ AnalyzerRan =>
          /\ {"estimatedRows", "summary", "operations", "complexity"}
                 \subseteq DOMAIN response.analysis
          /\ Malformed(response.explainRows) =>
                /\ response.analysis.estimatedRows = 0
                /\ response.analysis.operations = <<>>
                /\ response.analysis.complexity = "medium"
    /\ \A c \in Calls :
          (/\ kind[c] = "validateSQL" /\ pc[c] \in {"v_destroying", "done"}
           /\ Len(sent[c]) = 2 /\ sent[c][2].answer = "ok") =>
              /\ outcome[c].value.isValid
              /\ outcome[c].value.errors = <<>>
              /\ Malformed(ArrayOf(sent[c][2].rows)) =>
                    outcome[c].value.estimatedRowCount = 0

\* validateSQL returned a valid verdict for a plan whose only row is null
C13_Witness ==
    \E c \in Calls :
        /\ kind[c] = "validateSQL" /\ pc[c] = "done"
        /\ Len(sent[c]) = 2 /\ sent[c][2].answer = "ok"
        /\ sent[c][2].rows = <<NullRow>>
        /\ outcome[c].value.isValid
        /\ outcome[c].value.estimatedRowCount = 0

(***************************************************************************)
(* validateWithSnowflake                                                   *)
(***************************************************************************)
Validating(c) == kind[c] = "validateSQL" /\ pc[c] # "idle"

\* C14: in validateWithSnowflake the plan-analysis EXPLAIN is submitted only after the
\* acceptance check returned a valid verdict; when the engine rejects the text no
\* further statement is sent, and the verdict is invalid, has the engine's message,
\* unchanged, as its only error, and carries no estimatedRowCount.
C14_PlanOnlyAfterAcceptance ==
    \A c \in Calls :
        Validating(c) =>
            /\ Len(sent[c]) <= 2
            /\ Len(sent[c]) = 2 => sent[c][1].answer = "ok"
            /\ (Len(sent[c]) >= 1 /\ sent[c][1].answer = "rejected") =>
                  /\ Len(sent[c]) = 1
                  /\ pc[c] \in {"v_destroying", "done"}
                  /\ outcome[c].how = "returned"
                  /\ ~outcome[c].value.isValid
                  /\ Len(outcome[c].value.errors) = 1
                  /\ outcome[c].value.errors[1].text = "${err.message}"
                  /\ outcome[c].value.errors[1].arg = sent[c][1].error
                  /\ "estimatedRowCount" \notin DOMAIN outcome[c].value

\* validateSQL returned after the engine rejected the text with 'does not exist'
C14_Witness ==
    \E c \in Calls :
        /\ kind[c] = "validateSQL" /\ pc[c] = "done"
        /\ Len(sent[c]) = 1 /\ sent[c][1].answer = "rejected"
        /\ sent[c][1].error = "Object 'DATA' does not exist"
        /\ outcome[c].value.errors[1].arg = "Object 'DATA' does not exist"

\* C15: every statement that validateWithSnowflake (and so validateSQL and the
\* /v1/validate route) submits to the engine is the candidate text prefixed by
\* EXPLAIN; the bare candidate text is never submitted.
C15_OnlyExplainSubmitted ==
    \A c \in Calls :
        Validating(c) =>
            \A i \in 1..Len(sent[c]) :
                /\ sent[c][i].text = "EXPLAIN " \o args[c].sql
                /\ sent[c][i].text # args[c].sql

\* both statements of a validation, the acceptance check and the plan request, are out
C15_Witness ==
    \E c \in Calls :
        /\ kind[c] = "validateSQL" /\ pc[c] = "v_planning"
        /\ Len(sent[c]) = 2
        /\ sent[c][2].text = "EXPLAIN SELECT CREDIT_LIMIT FROM DATA"

(***************************************************************************)
(* previewQuery and the preview route                                      *)
(***************************************************************************)
Previewing(c) == kind[c] = "previewQuery" /\ pc[c] # "idle"

\* the text has a row-limit clause: the word LIMIT, white space and a number
LimitClauseAt(text, i) ==
    /\ OccursAt(text, "LIMIT", i)
    /\ i = 1 \/ ~(IsNameChar(CharAt(text, i - 1)) \/ IsDigit(CharAt(text, i - 1)))
    /\ SpaceRunEnd(text, i + 5) >= i + 5
    /\ DigitRunEnd(text, SpaceRunEnd(text, i + 5) + 1) > SpaceRunEnd(text, i + 5)

HasLimitClause(text) == \E i \in 1..Len(text) : LimitClauseAt(text, i)

\* C16: for every SQL text without an explicit row-limit clause, previewQuery executes
\* the text with a LIMIT clause of the requested maximum appended; the text is executed
\* as it is (white space around it trimmed) only when it has a row-limit clause.
C16_LimitAppended ==
    \A c \in Calls :
        (Previewing(c) /\ Len(sent[c]) >= 1) =>
            /\ ~HasLimitClause(args[c].sql) =>
                  sent[c][1].text
                      = trim(args[c].sql) \o " LIMIT " \o NumberToString(args[c].maxRows)
            /\ sent[c][1].text = trim(args[c].sql) => HasLimitClause(args[c].sql)

\* C17: the number of rows a preview returns (rowCount) never exceeds the effective
\* maxRows, whatever the SQL text and the requested maxRows are.
C17_RowCountBounded ==
    \A c \in Calls :
        (Previewing(c) /\ pc[c] = "done" /\ outcome[c].how = "returned"
            /\ ~args[c].maxRows.nan) =>
            outcome[c].value.rowCount <= args[c].maxRows.value

\* C18: whatever the maxRows field of the request is (absent, 0, negative, above 1000,
\* a numeric string, a value that is no number), the limit the preview route passes to
\* previewQuery is an integer from 1 to 1000, and it is 100 when the field is absent.
C18_LimitInRange ==
    \A c \in Calls :
        Previewing(c) =>
            /\ ~args[c].maxRows.nan
            /\ args[c].maxRows.value >= 1
            /\ args[c].maxRows.value <= 1000
            /\ args[c].requested = Undefined => args[c].maxRows.value = 100

CountFailed(c) ==
    \/ link[c].count = "failed"
    \/ \E i \in 1..Len(sent[c]) : sent[c][i].slot = "count" /\ sent[c][i].answer = "rejected"

\* C19: when the count round trip of a preview fails (its connection cannot be
\* established or the count statement is rejected) after the row-limited query
\* succeeded, getQueryCount returns the stand-in (count 0, queryId 'error') and
\* previewQuery still returns the result of the row-limited query, with totalEstimate 0.
C19_CountFailureNotFatal ==
    \A c \in Calls :
        /\ (Previewing(c) /\ CountFailed(c)) =>
              /\ sent[c][1].answer = "ok"
              /\ pc[c] = "c_destroying" =>
                    outcome[c] = Returned([count |-> 0, queryId |-> "error"])
              /\ pc[c] \in {"p_destroying", "done"} =>
                    /\ outcome[c].how = "returned"
                    /\ outcome[c].value.rowCount = sent[c][1].rowCount
                    /\ outcome[c].value.queryId = "query-id"
                    /\ outcome[c].value.totalEstimate = 0
        /\ (kind[c] = "getQueryCount" /\ pc[c] = "done" /\ CountFailed(c)) =>
              outcome[c] = Returned([count |-> 0, queryId |-> "error"])

\* previewQuery returned its 50 rows although the count statement was rejected
C19_Witness ==
    \E c \in Calls :
        /\ kind[c] = "previewQuery" /\ pc[c] = "done"
        /\ Len(sent[c]) = 2 /\ sent[c][2].answer = "rejected"
        /\ sent[c][1].rowCount = 50
        /\ outcome[c].value.rowCount = 50
        /\ outcome[c].value.totalEstimate = 0

(***************************************************************************)
(* The JSON object in the answer of the generation service                 *)
(***************************************************************************)
\* the quotes of a text that open or close a string literal: those preceded by an
\* even number of backslashes
LiteralQuotes(s) ==
    {k \in 1..Len(s) :
        /\ CharAt(s, k) = "\""
        /\ Cardinality({j \in 1..(k - 1) : \A l \in j..(k - 1) : CharAt(s, l) = "\\"}) % 2 = 0}

\* the braces of a text outside its string literals
BracesOutside(s, brace) ==
    LET quotes == LiteralQuotes(s)
    IN {i \in 1..Len(s) :
           CharAt(s, i) = brace /\ Cardinality({k \in quotes : k < i}) % 2 = 0}

\* the first top-level {...} of a text: from the first { to the first } that closes
\* as many braces as were opened, braces inside string literals not counted
FirstObject(text) ==
    LET opens == {i \in 1..Len(text) : CharAt(text, i) = "{"}
        first == CHOOSE i \in opens : \A j \in opens : i <= j
        opened == {i \in BracesOutside(text, "{") : i >= first}
        closed == {i \in BracesOutside(text, "}") : i > first}
        closing == {i \in closed :
                       Cardinality({j \in opened : j < i}) = Cardinality({j \in closed : j <= i})}
        last == CHOOSE i \in closing : \A j \in closing : i <= j
    IN IF opens = {} \/ closing = {} THEN [found |-> FALSE, text |-> ""]
       ELSE [found |-> TRUE, text |-> SubSeq(text, first, last)]

\* C20: for every answer of the generation service in which the first top-level {...}
\* is a JSON object, whatever commentary, code fences, braces or objects surround or
\* follow it, the generate route parses exactly that object: it answers with the
\* sqlQuery of that object.
C20_FirstObjectParsed ==
    (/\ handler = "generate" /\ stage = "responded"
     /\ FirstObject(reply).found
     /\ ~IsThrown(JSONparse(FirstObject(reply).text))
     /\ ~ArgumentThrows(SqlQueryOf(JSONparse(FirstObject(reply).text)))) =>
        /\ response.status = 200
        /\ response.body.sqlQuery = SqlQueryOf(JSONparse(FirstObject(reply).text))

(***************************************************************************)
(* Failures of the generate route                                          *)
(***************************************************************************)
\* a text has a JSON-shaped substring: a { with a } somewhere after it
JsonShaped(text) ==
    \E i \in 1..Len(text), j \in 1..Len(text) :
        i < j /\ CharAt(text, i) = "{" /\ CharAt(text, j) = "}"

\* how a generate request went wrong after the service was called
ServiceFailed == prompts # <<>> /\ reply = ""
NothingExtracted == reply # "" /\ ~JsonShaped(reply)
MalformedExtract == reply # "" /\ JsonShaped(reply) /\ IsThrown(JSONparse(jsonMatch(reply).text))

\* the response is an error object with a kind and a message, and nothing else
StructuredError(r) ==
    /\ DOMAIN r = {"status", "error", "message"}
    /\ r.status \in {400, 500}
    /\ r.error # ""
    /\ r.message.text # ""

\* C21: when the answer of the generation service holds no JSON-shaped substring, or
\* the extracted substring is malformed JSON, or the service call fails, the generate
\* request ends with a structured error object (kind and message) and nothing of a
\* GenerationResult: no validator has run and no sqlQuery, validation or metadata is
\* returned.
C21_FailureIsStructuredError ==
    (/\ handler = "generate" /\ stage = "responded"
     /\ (ServiceFailed \/ NothingExtracted \/ MalformedExtract)) =>
        /\ StructuredError(response)
        /\ syntaxV = NoVerdict /\ schemaV = NoVerdict /\ sql = ""

C21_Witness ==
    /\ handler = "generate" /\ stage = "responded"
    /\ MalformedExtract
    /\ response.status = 500
    /\ response.message.text = "SyntaxError: Unexpected token in JSON"

(***************************************************************************)
(* No retries                                                              *)
(***************************************************************************)
\* the statements a call has submitted on the connection of a slot
SubmittedOn(c, slot) == {i \in 1..Len(sent[c]) : sent[c][i].slot = slot}

InvalidRequest(r) == r.status = 400 /\ r.error = "Invalid request"

\* C23: when the schema id of a generate request cannot be resolved, compiling the
\* prompt fails with the schema-not-found error before the generation service is
\* contacted: no prompt is ever sent to the service for that request, and a request
\* that got as far as prompt compilation (its prompt field was accepted) is answered
\* with that error as the caller error 'Invalid schema' (status 400), not as an
\* internal failure.
C23_SchemaNotFoundBeforeService ==
    (handler = "generate" /\ ~loadSchema(schemaId).ok) =>
        /\ prompts = <<>> /\ reply = ""
        /\ stage = "responded"
        /\ syntaxV = NoVerdict /\ schemaV = NoVerdict
        /\ ~InvalidRequest(response) =>
              response = ErrorResponse(400, "Invalid schema", SchemaNotFoundMsg(schemaId))

C23_Witness ==
    /\ handler = "generate" /\ stage = "responded"
    /\ schemaId = "no-such-schema"
    /\ response.error = "Invalid schema"
    /\ response.message = SchemaNotFoundMsg("no-such-schema")

(***************************************************************************)
(* The order of the blocks of a prompt                                     *)
(***************************************************************************)
\* index of the first occurrence of a text in another, 0 when there is none
FirstIndex(s, needle) ==
    LET at == {i \in 1..(Len(s) - Len(needle) + 1) : SubSeq(s, i, i + Len(needle) - 1) = needle}
    IN IF at = {} THEN 0 ELSE CHOOSE i \in at : \A j \in at : i <= j

BuiltPrompt == handler = "buildPrompt" /\ ~IsThrown(response.built)

\* what the prompt holds between the base rule block and the user request
Middle ==
    SubSeq(response.built.prompt,
           Len(loadSystemPrompt(response.params.files)) + 1,
           Len(response.built.prompt) - Len("\n\nUSER REQUEST:\n" \o response.params.userPrompt))

\* where the blocks begin in the middle of the prompt, 0 for a block that is absent
HintsAt ==
    IF response.params.useCase = "email-marketing"
    THEN FirstIndex(Middle, "\n\nSCHEMA-SPECIFIC EMAIL RULES:\nRequired filters: ")
    ELSE FirstIndex(Middle, "\n\nSCHEMA-SPECIFIC DIRECT MAIL RULES:\nRequired filters: ")
ContextAt == FirstIndex(Middle, "\n\nDATABASE SCHEMA:\n")
UseCaseAt == FirstIndex(Middle, "\n\nUSE CASE INSTRUCTIONS:\n")
ConstraintsAt == FirstIndex(Middle, "\n\nCONSTRAINTS:\n")

\* the schema declares rules for the active use case
HintsDeclared ==
    \/ /\ response.params.useCase = "email-marketing"
       /\ SchemaDocs[response.params.schemaId].email_campaign_rules.declared
    \/ /\ response.params.useCase = "direct-mail"
       /\ SchemaDocs[response.params.schemaId].direct_mail_rules.declared

Before(i, j) == i # 0 /\ j # 0 => i < j

\* C24: for every request and resolvable schema the prompt of buildPrompt begins with
\* the base rule block and ends with the literal user request; between them stand, in
\* this order, the hints of the schema for the active use case (exactly when the
\* schema declares rules for it), the compacted schema context (always), the use-case
\* instruction block (only for a use case of the fixed vocabulary) and the constraint
\* block (exactly when constraints are given).  With the hints absent the schema
\* context is the first block of the middle.
C24_BlockOrder ==
    BuiltPrompt =>
        /\ StartsWith(response.built.prompt, loadSystemPrompt(response.params.files))
        /\ EndsWith(response.built.prompt,
                    "\n\nUSER REQUEST:\n" \o response.params.userPrompt)
        /\ (HintsAt # 0) = HintsDeclared
        /\ HintsAt # 0 => HintsAt = 1
        /\ ContextAt # 0
        /\ HintsAt = 0 => ContextAt = 1
        /\ UseCaseAt # 0 => response.params.useCase \in validUseCases
        /\ (ConstraintsAt # 0) = response.params.constraints.given
        /\ Before(HintsAt, ContextAt)
        /\ Before(ContextAt, UseCaseAt)
        /\ Before(ContextAt, ConstraintsAt)
        /\ Before(UseCaseAt, ConstraintsAt)

C24_Witness ==
    /\ BuiltPrompt
    /\ HintsAt # 0 /\ UseCaseAt # 0 /\ ConstraintsAt # 0
    /\ response.params.useCase = "direct-mail"

(***************************************************************************)
(* The permitted values of a field in the compacted schema context         *)
(***************************************************************************)
\* what a context says about the j-th field of the i-th table: inside the part that
\* starts at the heading of the table, from the line of the field to the next line
\* of a field or the blank line that ends the table
FieldSegment(context, heading, schema, i, j) ==
    LET table == schema.tables[i]
        block == SubSeq(context, FirstIndex(context, heading[1] \o table.name \o heading[2]),
                        Len(context))
        rest  == SubSeq(block, FirstIndex(block, "  - " \o table.fields[j].name \o " ("),
                        Len(block))
        ends  == {FirstIndex(rest, "\n  - "), FirstIndex(rest, "\n\n")} \ {0}
    IN IF ends = {} THEN rest
       ELSE SubSeq(rest, 1, CHOOSE e \in ends : \A f \in ends : e <= f)

ContextHeading == <<"TABLE: ", "\n">>
SummaryHeading == <<"\n", ":\n">>

\* the values a segment shows, in the order it shows them: the places of the quoted
\* values of the field
ShownAt(segment, values) ==
    [k \in 1..Len(values) |-> FirstIndex(segment, "\"" \o values[k] \o "\"")]

\* a segment renders the values as stated: none when there is none, all in
\* declared order up to five, else the first three, the count, the last two
RendersValues(segment, values) ==
    LET n == Len(values)
        at == ShownAt(segment, values)
        count == FirstIndex(segment, "(" \o NatToString(n) \o " ")
        shown == {k \in 1..n : at[k] # 0}
    IN /\ CountChar(segment, "\"") = 2 * Cardinality(shown)
       /\ Cardinality(shown) <= 5
       /\ \A k \in shown, l \in shown : k < l => at[k] < at[l]
       /\ n = 0 => ~Includes(segment, "alid values")
       /\ n <= 5 => shown = 1..n
       /\ n > 5 =>
             /\ shown = {1, 2, 3, n - 1, n}
             /\ at[3] < count /\ count < at[n - 1]

InContext == handler = "buildCompactSchemaContext"

\* C25: in the compacted schema context of the prompt builder, and in the one of the
\* schema-context module, every field that declares n permitted values has all n
\* rendered in declared order when 1 <= n <= 5, and exactly the first three, the
\* count n and the last two when n > 5, so never more than five values; a field
\* with no permitted values has no value list.
C25_ValuePreview ==
    InContext =>
        \A i \in 1..Len(response.schema.tables) :
            \A j \in 1..Len(response.schema.tables[i].fields) :
                /\ RendersValues(FieldSegment(response.context, ContextHeading, response.schema, i, j),
                                 response.schema.tables[i].fields[j].valid_values)
                /\ RendersValues(FieldSegment(response.summary, SummaryHeading, response.schema, i, j),
                                 response.schema.tables[i].fields[j].valid_values)

C25_Witness ==
    /\ InContext
    /\ Len(response.schema.tables[1].fields[1].valid_values) = 6
    /\ Len(response.schema.tables[1].fields[2].valid_values) = 5
    /\ Includes(response.context, "\"v3\" ... (6 total) ... \"v5\", \"v6\"")

(***************************************************************************)
(* The order of the two validators in the merge                            *)
(***************************************************************************)
\* the verdict the merge gives when the schema validator comes first
MergedSchemaFirst ==
    [isValid |-> schemaV.isValid /\ syntaxV.isValid,
     errors |-> schemaV.errors \o syntaxV.errors,
     warnings |-> schemaV.warnings \o syntaxV.warnings]

\* two lists hold the same entries, each as many times, in any order
TimesIn(list, e) == Cardinality({k \in 1..Len(list) : list[k] = e})
SameUpToOrder(l1, l2) ==
    /\ Len(l1) = Len(l2)
    /\ \A k \in 1..Len(l1) : TimesIn(l1, l1[k]) = TimesIn(l2, l1[k])

Merged == handler = "generate" /\ stage = "responded" /\ response.status = 200

\* C26 as stated: the verdict the generate route returns is the verdict the merge
\* gives with the validators in the other order: same isValid, same errors list,
\* same warnings list.
C26_AsStated ==
    Merged => response.body.validation = MergedSchemaFirst

\* C26: the verdict the generate route returns and the verdict the merge gives with
\* the validators in the other order have the same isValid and hold the same
\* errors and the same warnings, each as many times, the lists differing at most
\* in the order of their entries.
C26_SameUpToOrder ==
    Merged =>
        /\ response.body.validation.isValid = MergedSchemaFirst.isValid
        /\ SameUpToOrder(response.body.validation.errors, MergedSchemaFirst.errors)
        /\ SameUpToOrder(response.body.validation.warnings, MergedSchemaFirst.warnings)

\* both validators reported errors, and the two orders give different lists
C26_Witness ==
    /\ Merged
    /\ syntaxV.errors # <<>> /\ schemaV.errors # <<>>
    /\ response.body.validation.errors # MergedSchemaFirst.errors
    /\ Len(response.body.validation.errors) = Len(MergedSchemaFirst.errors)

(***************************************************************************)
(* Range comparison on an enumerated field                                 *)
(***************************************************************************)
RangeOperators == {">=", "<=", ">", "<"}

\* the fields a schema declares with a list of permitted values
EnumeratedFields(id) ==
    IF id \in DOMAIN SchemaDocs
    THEN UNION {{SchemaDocs[id].tables[i].fields[j].name :
                     j \in {k \in 1..Len(SchemaDocs[id].tables[i].fields) :
                                SchemaDocs[id].tables[i].fields[k].valid_values # <<>>}} :
                i \in 1..Len(SchemaDocs[id].tables)}
    ELSE {}

\* a text compares an enumerated field of the schema with a range operator
RangeOnEnumerated(text, id) ==
    \E name \in EnumeratedFields(id), op \in RangeOperators :
        Includes(text, name \o " " \o op \o " '")

\* C27: when the generate route has validated a SQL text that applies a range
\* comparison (>=, <=, >, <) to a field the schema declares with an enumerated
\* value list, the merged verdict of the syntax and the schema conformance
\* validators reports a problem: it is invalid, or has an error or a warning.
C27_EnumMisuseReported ==
    (Merged /\ RangeOnEnumerated(sql, schemaId)) =>
        \/ ~response.body.validation.isValid
        \/ response.body.validation.errors # <<>>
        \/ response.body.validation.warnings # <<>>

(***************************************************************************)
(* Who computes the validation and the metadata of a generate response     *)
(***************************************************************************)
\* the object the generation service returned, and the SQL text it carries
ReturnedObject == JSONparse(jsonMatch(reply).text)
ReturnedSql ==
    IF SqlQueryOf(ReturnedObject).type = "string" THEN SqlQueryOf(ReturnedObject).text ELSE ""

\* the object brings a key of its own
Brings(key) ==
    \E k \in 1..Len(ReturnedObject.fields) : ReturnedObject.fields[k].key = key

\* the verdict of the two validators on a text for the requested schema
ServerVerdict(text) ==
    [isValid |-> validateSyntax(text).isValid /\ validateAgainstSchema(text, schemaId).isValid,
     errors |-> validateSyntax(text).errors \o validateAgainstSchema(text, schemaId).errors,
     warnings |-> validateSyntax(text).warnings
                     \o validateAgainstSchema(text, schemaId).warnings]

\* C28: in every successful generate response, whatever the object returned by the
\* generation service contains, keys named validation or metadata included, the
\* validation is the merged verdict of the validators run on the object's sqlQuery
\* (on the empty string when it has none) and metadata.schema is the requested
\* schema id.
C28_ServerComputed ==
    Merged =>
        /\ response.body.validation = ServerVerdict(ReturnedSql)
        /\ response.body.metadata = [schema |-> schemaId]

\* the object brought a validation and a metadata of its own, and a statement the
\* validators reject
C28_Witness ==
    /\ Merged
    /\ Brings("validation") /\ Brings("metadata")
    /\ ~response.body.validation.isValid
    /\ response.body.metadata.schema = schemaId

(***************************************************************************)
(* Concurrent calls and their connections                                  *)
(***************************************************************************)
InFlight(c) == pc[c] \notin {"idle", "done"}

\* the connections a call has created and not yet released, and the ones that are
\* open on the side of the warehouse
HeldBy(c) == {slot \in Slots : ref[c][slot] = "set"}
OpenOf(c) == {slot \in Slots : link[c][slot] \in {"pending", "up"}}

MostConnections(k) == IF k = "previewQuery" THEN 2 ELSE 1

RECURSIVE SumOver(_, _)
SumOver(F, calls) ==
    IF calls = {} THEN 0
    ELSE LET c == CHOOSE d \in calls : TRUE
         IN F[c] + SumOver(F, calls \ {c})

OpenConnections == {<<c, slot>> \in Calls \X Slots : link[c][slot] \in {"pending", "up"}}

\* a step leaves alone the connections of every call that does not move in it
OwnConnectionsOnly ==
    \A c \in Calls : pc'[c] = pc[c] => (ref'[c] = ref[c] /\ link'[c] = link[c])

\* C29: under any interleaving of validate, preview and count calls a call's
\* connections are created, closed and nulled only by steps of that call; every
\* open connection is held by an in-flight call; the number of open connections
\* is the sum over the in-flight calls of the connections each holds open; and a
\* call holds at most one connection in validateSQL and getQueryCount and at most
\* two in previewQuery.
C29_ConnectionsPerCall ==
    /\ [][OwnConnectionsOnly]_vars
    /\ [](/\ \A c \in Calls : OpenOf(c) # {} => (InFlight(c) /\ OpenOf(c) \subseteq HeldBy(c))
          /\ Cardinality(OpenConnections) =
                SumOver([c \in Calls |-> IF InFlight(c)
                                         THEN Cardinality(HeldBy(c) \cap OpenOf(c)) ELSE 0],
                        Calls)
          /\ \A c \in Calls : Cardinality(HeldBy(c)) <= MostConnections(kind[c]))

\* one call has released its connection while a preview call has both of its
\* connections open
C29_Witness ==
    \E c \in Calls, d \in Calls :
        /\ c # d
        /\ link[c].main = "destroyed" /\ ref[c].main = "null"
        /\ kind[d] = "previewQuery"
        /\ link[d].main = "up" /\ link[d].count = "up"
        /\ Cardinality(OpenConnections) = 2

(***************************************************************************)
(* The order of the preview query and the count query                      *)
(***************************************************************************)
\* the row-limited query of a preview failed: no connection, or statement rejected
PreviewFailed(c) ==
    \/ link[c].main = "failed"
    \/ Len(sent[c]) >= 1 /\ sent[c][1].slot = "main" /\ sent[c][1].answer = "rejected"

PreviewSucceeded(c) ==
    Len(sent[c]) >= 1 /\ sent[c][1].slot = "main" /\ sent[c][1].answer = "ok"

\* the count connection of a call exists, is open, is released
CountOpened(c) ==
    link[c].count # "none" \/ ref[c].count = "set" \/ SubmittedOn(c, "count") # {}
ReleasedOn(c, slot) == ref[c][slot] = "null" /\ link[c][slot] \notin {"pending", "up"}

\* C30: in previewQuery the count connection is opened and the count query issued
\* only after the row-limited query has succeeded; while the count connection is
\* held the preview connection is still open, and it is released before the
\* preview connection is; when the row-limited query fails no count connection is
\* opened and no count query issued, the call throws 'Failed to preview query',
\* and the preview connection is released when the error reaches the caller.
C30_CountAfterPreview ==
    \A c \in Calls :
        kind[c] = "previewQuery" =>
            /\ CountOpened(c) => PreviewSucceeded(c)
            /\ ~ReleasedOn(c, "count") => (link[c].main = "up" /\ ref[c].main = "set")
            /\ PreviewFailed(c) =>
                  /\ ~CountOpened(c)
                  /\ pc[c] \in {"p_destroying", "done"}
                  /\ outcome[c].how = "thrown"
                  /\ outcome[c].value.thrown.text = "Failed to preview query: ${error.message}"
                  /\ pc[c] = "done" => ReleasedOn(c, "main")

\* one preview has its count connection open inside its preview connection while
\* another, whose row-limited query was rejected, has thrown with its connection
\* released and no count connection ever opened
C30_Witness ==
    \E c \in Calls, d \in Calls :
        /\ kind[c] = "previewQuery" /\ kind[d] = "previewQuery"
        /\ link[c].count = "up" /\ link[c].main = "up"
        /\ pc[d] = "done" /\ PreviewFailed(d) /\ link[d].main = "destroyed"
        /\ outcome[d].how = "thrown" /\ link[d].count = "none"

=============================================================================
